---- MODULE Spec2Model ----
(***************************************************************************)
(* Model of the playback engine of sprout: ui/waveform.py (AudioFader and *)
(* WaveformWidget).  A stereo buffer is a pair of channels, each a         *)
(* sequence of samples; the widget's fields are the variables; a handler   *)
(* is a sequence of steps on its thread.                                   *)
(***************************************************************************)
EXTENDS Integers, Sequences, FiniteSets, TLC

(* ---------------------------------------------------------------------- *)
(* Bounds of the model                                                     *)
(* ---------------------------------------------------------------------- *)
MaxLen == 2
MaxFrames == 3
MaxWidth == 3
MaxLeaked == 1
MaxSignal == 15
MaxPixels == 11
MaxAxis == 4
MaxBatch == 2
MaxTarget == 3
MaxSamples == 1
MaxAmplitude == 3
MaxFade == 3
MaxFadeLen == 4
MaxFadeCalls == 2
MaxSeeks == 1
MaxStreams == 2

(* ---------------------------------------------------------------------- *)
(* Program constants                                                       *)
(* ---------------------------------------------------------------------- *)
SAMPLE_RATE == 32000
FADE_MS == 20
WAVEFORM_PADDING == 16

\* Python's None: for the stream handle, and for audio_data and mono_data.
None == "None"
NoData == <<>>
Handle == "OutputStream"

Min(a, b) == IF a < b THEN a ELSE b
Max(a, b) == IF a > b THEN a ELSE b

\* AudioFader.__init__: int(Config.SAMPLE_RATE * fade_ms / 1000)
fade_samples == (SAMPLE_RATE * FADE_MS) \div 1000

\* Amplitudes are exact multiples of SampleUnit, so that a product with a
\* point k/(fade_samples-1) of np.linspace and the mean of two channels stay
\* integers.
SampleUnit == 2 * (fade_samples - 1) * (fade_samples - 1)

\* len() of a 2-D array: the size of its FIRST axis, here the channel axis.
len(a) == Len(a)

\* a.shape[1]: the number of samples per channel.
shape1(a) == Len(a[1])

\* a[:, lo:hi] with 0 <= lo, as numpy slices: clipped to the array, empty
\* when lo >= hi.
Slice(a, lo, hi) ==
    [c \in 1..Len(a) |->
        [i \in 1..Max(0, Min(hi, Len(a[c])) - lo) |-> a[c][lo + i]]]

\* np.linspace(0, 1, fade_samples)[i] as a fraction of (fade_samples - 1),
\* i counted from 0.
RampIn(i) == i
\* np.linspace(1, 0, fade_samples)[i] as a fraction of (fade_samples - 1).
RampOut(i) == (fade_samples - 1) - i

\* AudioFader.apply_fade_in
apply_fade_in(a) ==
    IF len(a) < fade_samples
    THEN a
    ELSE [c \in 1..Len(a) |->
            [i \in 1..Len(a[c]) |->
                IF i <= fade_samples
                THEN (a[c][i] * RampIn(i - 1)) \div (fade_samples - 1)
                ELSE a[c][i]]]

\* AudioFader.apply_fade_out
apply_fade_out(a) ==
    IF len(a) < fade_samples
    THEN a
    ELSE [c \in 1..Len(a) |->
            [i \in 1..Len(a[c]) |->
                IF i > Len(a[c]) - fade_samples
                THEN (a[c][i] * RampOut(i - 1 - (Len(a[c]) - fade_samples)))
                        \div (fade_samples - 1)
                ELSE a[c][i]]]

\* WaveformWidget.get_current_audio_chunk, for a loaded buffer a and the
\* cursor pos.
get_current_audio_chunk(a, pos, frames) ==
    LET end_pos == Min(pos + frames, shape1(a))
        data == Slice(a, pos, end_pos)
        d1 == IF pos = 0 THEN apply_fade_in(data) ELSE data
        d2 == IF end_pos = shape1(a) THEN apply_fade_out(d1) ELSE d1
    IN d2

\* data.T: one row <<left, right>> per frame.
Transpose(d) == [i \in 1..shape1(d) |-> <<d[1][i], d[2][i]>>]

\* No playhead line was drawn.
NoColumn == 0 - 1

\* An output frame the callback has not written.
NoFrame == <<>>
ZeroFrame == <<0, 0>>

\* np.mean(audio_data, axis=0)
MonoOf(a) == [i \in 1..shape1(a) |-> (a[1][i] + a[2][i]) \div 2]

\* The buffers handed to set_audio_data: 2 channels of n samples.
MkBuf(n, s) ==
    << [i \in 1..n |-> (i + s - 1) * SampleUnit],
       [i \in 1..n |-> (0 - (i + s + 1)) * SampleUnit] >>
Buffers == {MkBuf(n, 1) : n \in 1..MaxLen}

Frames == 1..MaxFrames
\* self.width() and event.x(): the drawable width runs over 0..MaxWidth.
WidgetWidths == (2 * WAVEFORM_PADDING)..(2 * WAVEFORM_PADDING + MaxWidth)
XPositions == (WAVEFORM_PADDING - 1)..(WAVEFORM_PADDING + MaxWidth + 1)

(* ---------------------------------------------------------------------- *)
(* AudioGenerator.generate: arrays, channel canonicalization, duration fit *)
(* ---------------------------------------------------------------------- *)

\* A numpy array: its shape and its elements in row-major order.
Prod(shape) ==
    IF Len(shape) = 0 THEN 1
    ELSE IF Len(shape) = 1 THEN shape[1]
    ELSE IF Len(shape) = 2 THEN shape[1] * shape[2]
    ELSE shape[1] * shape[2] * shape[3]
Array(shape) == [shape |-> shape, data |-> [k \in 1..Prod(shape) |-> k]]
NoArray == [shape |-> <<>>, data |-> <<>>]
Rank(arr) == Len(arr.shape)

\* audio_data[i] of a rank-2 array, i from 0.
Row(arr, i) ==
    SubSeq(arr.data, i * arr.shape[2] + 1, (i + 1) * arr.shape[2])

\* audio_data.squeeze(0), for an array whose axis 0 has size 1.
squeeze(arr) == [shape |-> Tail(arr.shape), data |-> arr.data]

\* np.stack([r, r]) of a rank-1 array r.
stack_half_silent(r) ==
    [shape |-> <<2, Len(r)>>, data |-> r \o [k \in 1..Len(r) |-> 0]]
stack(r) == [shape |-> <<2, Len(r)>>, data |-> r \o r]

\* audio_data.T of a rank-2 array.
T(arr) ==
    LET a == arr.shape[1]
        b == arr.shape[2]
    IN [shape |-> <<b, a>>,
        data |-> [k \in 1..(a * b) |->
                    arr.data[((k - 1) % a) * b + ((k - 1) \div a) + 1]]]

\* audio_data[:2] of a rank-2 array.
FirstTwo(arr) ==
    LET rows == Min(2, arr.shape[1])
    IN [shape |-> <<rows, arr.shape[2]>>,
        data |-> SubSeq(arr.data, 1, rows * arr.shape[2])]

\* generate, lines 116-118: remove the batch dimension.  squeeze(0) raises
\* ValueError when axis 0 has a size other than 1.
Unbatched(raw) ==
    IF Rank(raw) # 3 THEN [error |-> "none", audio |-> raw]
    ELSE IF raw.shape[1] = 1 THEN [error |-> "none", audio |-> squeeze(raw)]
    ELSE [error |-> "ValueError", audio |-> NoArray]

\* generate, lines 121-132: mono to stereo, or transpose and cut to two rows.
Stereo(arr) ==
    IF Rank(arr) = 1 THEN stack(arr.data)
    ELSE IF arr.shape[1] > 2
    THEN (IF T(arr).shape[1] > 2 THEN FirstTwo(T(arr)) ELSE T(arr))
    ELSE arr

\* generate, lines 135-140: a row count other than 2 duplicates row 0;
\* audio_data[0] raises IndexError when there is no row.
ExactlyTwo(arr) ==
    IF arr.shape[1] = 2 THEN [error |-> "none", audio |-> arr]
    ELSE IF Rank(arr) = 1 THEN [error |-> "none", audio |-> stack(arr.data)]
    ELSE IF arr.shape[1] = 0 THEN [error |-> "IndexError", audio |-> NoArray]
    ELSE [error |-> "none", audio |-> stack(Row(arr, 0))]

\* generate, lines 115-140: the channel canonicalization.
canonicalize(raw) ==
    IF Unbatched(raw).error # "none" THEN Unbatched(raw)
    ELSE ExactlyTwo(Stereo(Unbatched(raw).audio))

\* generate, lines 143-153: trim or zero-pad a 2 x c array to target_samples.
Zeros(n) == [k \in 1..n |-> 0]
fit_duration_pad_only(arr, target_samples) ==
    LET current_samples == arr.shape[2]
    IN IF current_samples < target_samples
       THEN [shape |-> <<2, target_samples>>,
             data |-> Row(arr, 0) \o Zeros(target_samples - current_samples)
                      \o Row(arr, 1) \o Zeros(target_samples - current_samples)]
       ELSE arr
fit_duration(arr, target_samples) ==
    LET current_samples == arr.shape[2]
    IN IF current_samples > target_samples
       THEN [shape |-> <<2, target_samples>>,
             data |-> SubSeq(Row(arr, 0), 1, target_samples)
                      \o SubSeq(Row(arr, 1), 1, target_samples)]
       ELSE IF current_samples < target_samples
       THEN [shape |-> <<2, target_samples>>,
             data |-> Row(arr, 0) \o Zeros(target_samples - current_samples)
                      \o Row(arr, 1) \o Zeros(target_samples - current_samples)]
       ELSE arr

\* No generate call has been made.
NoGeneration ==
    [done |-> FALSE, raw |-> NoArray, target_samples |-> 0,
     canonical |-> NoArray, audio |-> NoArray, error |-> "none"]

\* No normalize_audio call has been made.
NoNormalization ==
    [done |-> FALSE, op |-> "none", input |-> NoArray, output |-> NoArray,
     error |-> "none"]

\* The fader of the widget (line 52), which no call has been made to.
NoFade ==
    [calls |-> 0, op |-> "none", fade_samples |-> fade_samples,
     input |-> <<<<>>, <<>>>>, output |-> <<<<>>, <<>>>>, error |-> "none"]

\* No array has been handed to set_audio_data.  data is the caller's array
\* as it is now, loaded its samples when it was handed over, and shared
\* tells whether the widget's audio_data is that same object.
NoCaller == [data |-> NoData, loaded |-> NoData, shared |-> FALSE]

\* The fields a handler finds when it starts; NoFound before any handler
\* has run.
NoFound ==
    [is_playing |-> FALSE, is_looping |-> FALSE, stream |-> None,
     playback_timer |-> FALSE, open_streams |-> {}, running |-> {},
     playhead_position |-> 0, audio_data |-> NoData, mono_data |-> NoData]

\* No callback is in progress.  pc is the line the audio thread executes
\* next and stream the stream whose callback it is; frames to obj are the
\* locals of audio_callback, get_current_audio_chunk and stop_playback
\* (pos, arr, loaded and obj are the values of self.playhead_position,
\* self.audio_data and self.stream that a line has read and not yet
\* used); held collects the cursor values seen while the callback runs
\* and seeks to seek_at describe the seeks that raced with it.  alone tells
\* that the GUI thread was in no handler when the callback began and has
\* taken no step since, found the fields at line 118.
NoCallback ==
    [pc |-> "idle", stream |-> None, frames |-> 0, pos |-> 0,
     arr |-> NoData, end_pos |-> 0,
     data |-> <<<<>>, <<>>>>, remaining_frames |-> 0,
     additional_data |-> <<<<>>, <<>>>>, loaded |-> 0, obj |-> None,
     held |-> {},
     seeks |-> 0, seek_from |-> 0, seek_to |-> 0, seek_at |-> "none",
     raised |-> FALSE, stops |-> FALSE, alone |-> TRUE,
     found |-> NoFound, signals |-> <<>>, replay |-> 0]

VARIABLES
    audio_data,         \* NoData or the loaded 2 x L buffer
    mono_data,          \* NoData or the channel mean
    is_playing,
    is_looping,
    playhead_position,
    stream,             \* None or the handle of the output stream
    playback_timer,     \* the repaint timer is active
    open_streams,       \* device: the streams opened and not closed
    running,            \* device: the streams started and not stopped
    outdata,            \* the output block of the callback, until the next handler
    started,            \* the latest of playbackStarted and playbackStopped emitted is playbackStarted
    last,               \* history: the handler that returned latest, its inputs and the state it found
    gui,                \* threads: the handler the GUI thread is in, line by line
    cb,                 \* threads: the callback the audio thread is in, line by line
    generated,          \* AudioGenerator: the latest generate call and its outcome
    normalized,         \* AudioGenerator: the latest normalize_audio call and its outcome
    faded,              \* AudioFader: its fade_samples, the latest call and its outcome
    caller_array        \* the array handed to set_audio_data, which its caller keeps

vars == <<audio_data, mono_data, is_playing, is_looping, playhead_position,
          stream, playback_timer, open_streams, running, outdata, started,
          last, gui, cb, generated, normalized, faded, caller_array>>

\* The state of the AudioGenerator.
generator_vars == <<generated, normalized>>

\* The fields of the WaveformWidget, its device, its GUI thread and its
\* history.
widget_vars == <<audio_data, mono_data, is_playing, is_looping,
                 playhead_position, stream, playback_timer, open_streams,
                 running, outdata, started, last, gui>>

\* No handler is in progress on the GUI thread, and none has returned.
\* op is the handler and pc the line the thread executes next; buf, new,
\* obj and failed are locals (the argument of set_audio_data, the stream
\* sd.OutputStream returned, the value of self.stream that a line has read
\* for a call of start(), stop() or close(), the except branch of
\* play_audio was entered).
\* The other fields are history: the inputs, the fields found at entry,
\* the signals emitted and what was drawn.  alone tells that the other
\* thread was in no handler when this one began and took no step before it
\* returned; the history of a handler that was not alone is not kept.
\* race is the callback that a seek raced with, and the pc and seeks of no
\* callback when none did.
NoOp == [op |-> "none", pc |-> "idle", alone |-> TRUE,
         frames |-> 0, x |-> 0, width |-> 0,
         playing |-> FALSE, cursor |-> 0, loaded |-> FALSE, held |-> FALSE,
         found |-> NoFound, signals |-> <<>>, raised |-> FALSE,
         opened |-> 0, column |-> NoColumn, envelope |-> <<>>,
         replay |-> 0, buf |-> NoData, new |-> None, obj |-> None,
         failed |-> FALSE,
         race |-> [pc |-> "idle", seeks |-> 0]]

\* The fields as they are now.
Found ==
    [is_playing |-> is_playing, is_looping |-> is_looping,
     stream |-> stream, playback_timer |-> playback_timer,
     open_streams |-> open_streams, running |-> running,
     playhead_position |-> playhead_position, audio_data |-> audio_data,
     mono_data |-> mono_data]

\* The record of a handler that starts on the GUI thread in the current
\* state.
Entry(name) ==
    IF cb.pc = "idle"
    THEN [NoOp EXCEPT !.op = name,
                      !.playing = is_playing,
                      !.cursor = playhead_position,
                      !.loaded = (audio_data # NoData),
                      !.held = (stream # None),
                      !.found = Found]
    ELSE [NoOp EXCEPT !.op = name, !.alone = FALSE]

\* WaveformWidget.__init__ (is_looping = True) and HistoryWaveform.__init__
\* (is_looping = False).
Init ==
    /\ audio_data = NoData
    /\ mono_data = NoData
    /\ is_playing = FALSE
    /\ is_looping \in BOOLEAN
    /\ playhead_position = 0
    /\ stream = None
    /\ playback_timer = FALSE
    /\ open_streams = {}
    /\ running = {}
    /\ outdata = <<>>
    /\ started = FALSE
    /\ last = NoOp
    /\ gui = NoOp
    /\ cb = NoCallback
    /\ generated = NoGeneration
    /\ normalized = NoNormalization
    /\ faded = NoFade
    /\ caller_array = NoCaller

(* ---------------------------------------------------------------------- *)
(* The two threads                                                         *)
(* ---------------------------------------------------------------------- *)

\* play_audio, stop_playback, set_audio_data, seek_to_position,
\* mousePressEvent and paintEvent run on the GUI thread, audio_callback on
\* the thread of PortAudio.  No lock guards is_playing, stream,
\* playhead_position, audio_data and the timer, and stream.start(),
\* stream.stop() and stream.close() release the interpreter while they
\* wait, so a handler is a sequence of steps, one per read or write of a
\* shared field, and the steps of the two threads interleave.  A line
\* that reads two fields, or reads a field and then calls the device, is
\* two steps: the step "100" reads the cursor and "100len" the buffer,
\* "169" reads self.stream and "169()" calls stop() of the stream read.
\* Lines that touch only locals, or fields that one thread alone uses
\* (mono_data, the widget's width, outdata), belong to the step before
\* them.

\* The lines of stop_playback.
StopLines ==
    {"165", "166", "167", "169", "169()", "170", "170()", "173", "174",
     "175", "177"}

\* The callback c inside stop_playback, which it calls at line 138 and
\* returns after: frames and end_pos are read no more, and are history
\* only of a callback that ran alone or raced with a recorded seek.
InStop(c) ==
    IF c.pc \in StopLines /\ ~c.alone /\ c.seeks = 0
    THEN [c EXCEPT !.frames = 0, !.end_pos = 0]
    ELSE c

\* A step of the GUI thread, seen from the callback in progress.
InterruptedCb ==
    IF cb.pc = "idle"
    THEN cb
    ELSE InStop([cb EXCEPT !.alone = FALSE,
                           !.found = NoFound,
                           !.signals = <<>>,
                           !.replay = 0])

\* A step of the audio thread, seen from the handler in progress on the
\* GUI thread.
InterruptedGui ==
    IF gui.pc = "idle"
    THEN gui
    ELSE [NoOp EXCEPT !.op = gui.op, !.pc = gui.pc, !.alone = FALSE,
                      !.buf = gui.buf, !.new = gui.new,
                      !.obj = gui.obj, !.failed = gui.failed]

\* What the history keeps of the handler g of the GUI thread that returns.
Finish(g) ==
    IF g.alone
    THEN [g EXCEPT !.pc = "idle", !.buf = NoData, !.new = None,
                   !.obj = None, !.failed = FALSE]
    ELSE [NoOp EXCEPT !.op = g.op, !.alone = FALSE]

\* The GUI thread moves to line pc of its handler g, or returns from it.
GuiMove(g, pc) ==
    IF pc = "return"
    THEN /\ gui' = NoOp
         /\ last' = IF cb.pc = "idle" THEN Finish(g) ELSE NoOp
    ELSE /\ gui' = [g EXCEPT !.pc = pc]
         /\ last' = IF gui.pc = "idle" THEN NoOp ELSE last

\* The block rows that the callback writes to outdata, which is recorded
\* while the GUI thread is in no handler.
Block(rows) == IF gui.pc = "idle" THEN rows ELSE <<>>

\* A handler starts on the GUI thread and reaches line pc: the block of a
\* finished callback is dropped, and so is the block of the callback in
\* progress unless the handler returns at once, as a seek does.
GuiCall(g, pc) ==
    /\ gui.pc = "idle"
    /\ outdata' = IF cb.pc = "idle" \/ pc # "return" THEN <<>> ELSE outdata
    /\ GuiMove(g, pc)

\* What every step of the GUI thread leaves alone.
GuiFrame ==
    /\ cb' = InterruptedCb
    /\ UNCHANGED <<is_looping, generated, normalized, faded>>


(* ---------------------------------------------------------------------- *)
(* stop_playback, line by line                                             *)
(* ---------------------------------------------------------------------- *)

\* The outcomes of stop() at line 169 and of close() at line 170, called
\* on the stream obj that the line has read: a failure of stop() leaves
\* the device stream open and running, a failure of close() leaves it
\* open, and the number of streams left open is capped.
StopChoices(pc, obj) ==
    IF pc \in {"169()", "170()"} /\ obj \in open_streams
                                 /\ Cardinality(open_streams) <= MaxLeaked
    THEN {"ok", IF pc = "169()" THEN "stop_fails" ELSE "close_fails"}
    ELSE {"ok"}

\* Line 165: if self.is_playing.
stop_playback_guard(p) == p

\* stop_playback without the try of line 168: an exception of stop() or
\* close() leaves the call.
stop_playback_raises_uncaught == TRUE

\* The except of line 171 catches every Exception of lines 169-170 and
\* line 172 logs it, so the call never raises.
stop_playback_raises == FALSE

\* One step of WaveformWidget.stop_playback: the line reached next, the
\* fields after it, the stream held for the call that follows and whether
\* an exception leaves the call.  Lines 169 and 170 each read self.stream
\* and then call the stream read: on None the read raises AttributeError,
\* which the except of line 171 catches, as it catches a failure of stop()
\* (close() is then skipped) and a failure of close() (the stream stays
\* open); line 173 follows.  stop() and close() ignore PortAudio's errors
\* on a stream that is stopped or closed already.  Line 174 asks the timer
\* whether it is active and line 175 stops it.
stop_step(pc, so, obj) ==
    LET same == [pc |-> pc, obj |-> None, is_playing |-> is_playing,
                 stream |-> stream, playback_timer |-> playback_timer,
                 open_streams |-> open_streams, running |-> running,
                 emits |-> FALSE, raised |-> FALSE]
        except == [same EXCEPT
                      !.pc = IF stop_playback_raises THEN "return" ELSE "173",
                      !.raised = stop_playback_raises]
    IN CASE pc = "165" ->
               [same EXCEPT !.pc = IF stop_playback_guard(is_playing)
                                   THEN "166" ELSE "return"]
         [] pc = "166" -> [same EXCEPT !.pc = "167", !.is_playing = FALSE]
         [] pc = "167" ->
               [same EXCEPT !.pc = IF stream # None THEN "169" ELSE "174"]
         [] pc = "169" ->
               IF stream = None
               THEN except
               ELSE [same EXCEPT !.pc = "169()", !.obj = stream]
         [] pc = "169()" ->
               IF so = "stop_fails"
               THEN except
               ELSE [same EXCEPT !.pc = "170",
                                 !.running = running \ {obj}]
         [] pc = "170" ->
               IF stream = None
               THEN except
               ELSE [same EXCEPT !.pc = "170()", !.obj = stream]
         [] pc = "170()" ->
               IF so = "close_fails"
               THEN except
               ELSE [same EXCEPT !.pc = "173",
                                 !.open_streams = open_streams \ {obj},
                                 !.running = running \ {obj}]
         [] pc = "173" -> [same EXCEPT !.pc = "174", !.stream = None]
         [] pc = "174" ->
               [same EXCEPT !.pc = IF playback_timer THEN "175" ELSE "177"]
         [] pc = "175" ->
               [same EXCEPT !.pc = "177", !.playback_timer = FALSE]
         [] pc = "177" -> [same EXCEPT !.pc = "return", !.emits = TRUE]

\* play_audio whose except branch cleans up and re-raises.
play_audio_raises_again == TRUE

\* play_audio catches every Exception (line 159), so the call never
\* raises.
play_audio_raises == FALSE

\* Handler: stop_playback() from the GUI thread: the call and line 165.
StopPlayback ==
    /\ GuiCall(Entry("stop_playback"), stop_step("165", "ok", None).pc)
    /\ GuiFrame
    /\ UNCHANGED <<audio_data, mono_data, caller_array, is_playing,
                   playhead_position, stream, playback_timer, open_streams,
                   running, started>>

\* The next step of stop_playback on the GUI thread, called directly, by
\* set_audio_data (line 80) or by the except branch of play_audio (line
\* 161).  stop() of a running stream returns once no callback of that
\* stream is in progress.  An exception that leaves stop_playback leaves
\* its caller too.
GuiStop(so) ==
    /\ gui.pc \in StopLines
    /\ (gui.pc = "169()" /\ gui.obj \in running /\ so = "ok")
          => (cb.pc = "idle" \/ cb.stream # gui.obj)
    /\ \E r \in {stop_step(gui.pc, so, gui.obj)} :
          /\ is_playing' = r.is_playing
          /\ stream' = r.stream
          /\ playback_timer' = r.playback_timer
          /\ open_streams' = r.open_streams
          /\ running' = r.running
          /\ started' = IF r.emits THEN FALSE ELSE started
          /\ LET g == [gui EXCEPT
                          !.obj = r.obj,
                          !.signals = IF r.emits /\ gui.alone
                                      THEN Append(@, "playbackStopped")
                                      ELSE @,
                          !.raised = IF r.raised
                                     THEN TRUE
                                     ELSE IF r.pc = "return" /\ gui.failed
                                     THEN play_audio_raises ELSE @]
             IN GuiMove(g, IF r.pc = "return" /\ ~r.raised
                                              /\ gui.op = "set_audio_data"
                           THEN "81" ELSE r.pc)
    /\ GuiFrame
    /\ UNCHANGED <<audio_data, mono_data, caller_array, playhead_position,
                   outdata>>

(* ---------------------------------------------------------------------- *)
(* set_audio_data                                                          *)
(* ---------------------------------------------------------------------- *)

\* set_audio_data keeps the cursor.
ResetCursor_kept == playhead_position

\* The cursor set_audio_data leaves.
ResetCursor == 0

\* self.audio_data = audio_data: the widget keeps the caller's object.
Shares_kept == TRUE

\* audio_data.copy() (line 81): the widget's buffer is a new object.
Shares == FALSE
copy(buf) == buf

\* Handler: set_audio_data(buf, path); buf is None (NoData) or a 2 x n
\* array.  Line 80 calls stop_playback: the call and line 165.
SetAudioData(buf) ==
    /\ GuiCall([Entry("set_audio_data") EXCEPT !.buf = buf],
               IF stop_step("165", "ok", None).pc = "return"
               THEN "81" ELSE stop_step("165", "ok", None).pc)
    /\ GuiFrame
    /\ UNCHANGED <<audio_data, mono_data, caller_array, is_playing,
                   playhead_position, stream, playback_timer, open_streams,
                   running, started>>

\* Line 81: self.audio_data = audio_data.copy().
SetStore ==
    /\ gui.pc = "81"
    /\ audio_data' = copy(gui.buf)
    /\ caller_array' = [data |-> gui.buf, loaded |-> gui.buf,
                        shared |-> Shares /\ gui.buf # NoData]
    /\ GuiMove(gui, "83")
    /\ GuiFrame
    /\ UNCHANGED <<mono_data, is_playing, playhead_position, stream,
                   playback_timer, open_streams, running, started, outdata>>

\* Lines 83-91: the cursor is reset and the mono signal computed.
SetReset ==
    /\ gui.pc = "83"
    /\ playhead_position' = ResetCursor
    /\ mono_data' = IF gui.buf # NoData THEN MonoOf(gui.buf) ELSE NoData
    /\ GuiMove(gui, "return")
    /\ GuiFrame
    /\ UNCHANGED <<audio_data, caller_array, is_playing, stream,
                   playback_timer, open_streams, running, started, outdata>>

(* ---------------------------------------------------------------------- *)
(* play_audio, line by line                                                *)
(* ---------------------------------------------------------------------- *)

\* play_audio does not test is_playing.
CanPlay_loaded == audio_data # NoData

\* The guard of play_audio (line 145).
CanPlay == audio_data # NoData /\ ~is_playing

\* play_audio whose except branch does not call stop_playback.
play_audio_except_no_cleanup == "return"

\* The except branch of play_audio (lines 159-161) calls stop_playback.
play_audio_except == "165"

\* The stream objects sd.OutputStream(...) returns.
StreamHandles ==
    <<Handle, "OutputStream2", "OutputStream3", "OutputStream4",
      "OutputStream5">>

\* The handles no open stream, field or thread refers to; sd.OutputStream
\* returns the first of them.
Unused ==
    {i \in 1..MaxStreams :
        StreamHandles[i] \notin
            open_streams \cup {stream, gui.new, gui.obj, cb.obj, cb.stream}}
NewStream == StreamHandles[CHOOSE i \in Unused : \A j \in Unused : i <= j]

\* The handler recorded in rec was a callback that ran out of buffer and
\* called stop_playback (lines 135-138); replay in a later record is that
\* callback's frame count while nothing but play_audio has run since.
Exhausted(rec) ==
    rec.op = "audio_callback" /\ rec.alone /\ rec.signals # <<>>

\* Handler: play_audio() from the GUI thread: the call and the guard of
\* line 145.
PlayAudio ==
    /\ gui.pc = "idle"
    /\ Unused # {}
    /\ GuiCall([Entry("play_audio") EXCEPT
                   !.replay = IF Exhausted(last) /\ cb.pc = "idle" /\ CanPlay
                              THEN last.frames ELSE 0],
               IF CanPlay THEN "146" ELSE "return")
    /\ GuiFrame
    /\ UNCHANGED <<audio_data, mono_data, caller_array, is_playing,
                   playhead_position, stream, playback_timer, open_streams,
                   running, started>>

\* Line 146: self.is_playing = True.
PlaySet ==
    /\ gui.pc = "146"
    /\ is_playing' = TRUE
    /\ GuiMove(gui, "150")
    /\ GuiFrame
    /\ UNCHANGED <<audio_data, mono_data, caller_array, playhead_position,
                   stream, playback_timer, open_streams, running, started,
                   outdata>>

\* Lines 150-154, the call: sd.OutputStream(...) opens a stream or raises,
\* which leads to the except branch.
PlayOpen(oo) ==
    /\ gui.pc = "150"
    /\ IF oo = "ok"
       THEN /\ open_streams' = open_streams \cup {NewStream}
            /\ GuiMove([gui EXCEPT !.new = NewStream,
                                   !.opened = IF gui.alone THEN @ + 1 ELSE @],
                       "150=")
       ELSE /\ UNCHANGED open_streams
            /\ GuiMove([gui EXCEPT !.failed = TRUE,
                                   !.raised =
                                      IF play_audio_except = "return"
                                      THEN play_audio_raises ELSE @],
                       play_audio_except)
    /\ GuiFrame
    /\ UNCHANGED <<audio_data, mono_data, caller_array, is_playing,
                   playhead_position, stream, playback_timer, running,
                   started, outdata>>

\* Line 150, the assignment self.stream = <the new stream>.
PlayStore ==
    /\ gui.pc = "150="
    /\ stream' = gui.new
    /\ GuiMove([gui EXCEPT !.new = None], "155")
    /\ GuiFrame
    /\ UNCHANGED <<audio_data, mono_data, caller_array, is_playing,
                   playhead_position, playback_timer, open_streams, running,
                   started, outdata>>

\* Line 155, the read of self.stream: AttributeError on None, which
\* leads to the except branch.
PlayLoad ==
    /\ gui.pc = "155"
    /\ IF stream # None
       THEN GuiMove([gui EXCEPT !.obj = stream], "155()")
       ELSE GuiMove([gui EXCEPT !.failed = TRUE,
                                !.raised =
                                   IF play_audio_except = "return"
                                   THEN play_audio_raises ELSE @],
                    play_audio_except)
    /\ GuiFrame
    /\ UNCHANGED <<audio_data, mono_data, caller_array, is_playing,
                   playhead_position, stream, playback_timer, open_streams,
                   running, started, outdata>>

\* Line 155, start() of the stream read: PortAudioError on a closed stream
\* and whenever the device refuses, which leads to the except branch.
PlayStart(oo) ==
    /\ gui.pc = "155()"
    /\ IF gui.obj \in open_streams /\ oo = "ok"
       THEN /\ running' = running \cup {gui.obj}
            /\ GuiMove([gui EXCEPT !.obj = None], "156")
       ELSE /\ UNCHANGED running
            /\ GuiMove([gui EXCEPT !.obj = None,
                                   !.failed = TRUE,
                                   !.raised =
                                      IF play_audio_except = "return"
                                      THEN play_audio_raises ELSE @],
                       play_audio_except)
    /\ GuiFrame
    /\ UNCHANGED <<audio_data, mono_data, caller_array, is_playing,
                   playhead_position, stream, playback_timer, open_streams,
                   started, outdata>>

\* Line 156: self.playback_timer.start().
PlayTimer ==
    /\ gui.pc = "156"
    /\ playback_timer' = TRUE
    /\ GuiMove(gui, "157")
    /\ GuiFrame
    /\ UNCHANGED <<audio_data, mono_data, caller_array, is_playing,
                   playhead_position, stream, open_streams, running, started,
                   outdata>>

\* Line 157: self.playbackStarted.emit().
PlayEmit ==
    /\ gui.pc = "157"
    /\ started' = TRUE
    /\ GuiMove([gui EXCEPT !.signals = IF gui.alone
                                       THEN Append(@, "playbackStarted")
                                       ELSE @],
               "return")
    /\ GuiFrame
    /\ UNCHANGED <<audio_data, mono_data, caller_array, is_playing,
                   playhead_position, stream, playback_timer, open_streams,
                   running, outdata>>

(* ---------------------------------------------------------------------- *)
(* seek_to_position and mousePressEvent                                    *)
(* ---------------------------------------------------------------------- *)

\* seek_to_position, lines 200-205: the clamped padding-relative x.
x_relative(x_pos, width) ==
    LET xr == x_pos - WAVEFORM_PADDING
    IN IF xr < 0 THEN 0 ELSE IF xr > width THEN width ELSE xr

\* seek_to_position, lines 207-208: int((x_relative / width) * len(mono_data))
\* for width # 0.  The ratio lies in [0, 1], so int() is the floor.
\* Exact for the widths of the model; the double product first falls below
\* an exact integer at x_relative = 15, width = 22, len = 22.
new_position_round(xr, width, n) == (2 * xr * n + width) \div (2 * width)
new_position(xr, width, n) == (xr * n) \div width

\* seek_to_position without the test for a loaded buffer.
seek_to_position_unguarded(x_pos, ww) ==
    LET width == ww - 2 * WAVEFORM_PADDING
    IN IF width = 0
       THEN [cursor |-> playhead_position, moved |-> FALSE,
             signals |-> <<>>, raised |-> TRUE]
       ELSE [cursor |-> new_position(x_relative(x_pos, width), width,
                                     Len(mono_data)),
             moved |-> TRUE, signals |-> <<"seeked">>, raised |-> FALSE]

\* seek_to_position that moves the cursor by the computed amount.
seek_to_position_relative(x_pos, ww) ==
    LET width == ww - 2 * WAVEFORM_PADDING
    IN IF audio_data = NoData
       THEN [cursor |-> playhead_position, moved |-> FALSE,
             signals |-> <<>>, raised |-> FALSE]
       ELSE IF width = 0
       THEN [cursor |-> playhead_position, moved |-> FALSE,
             signals |-> <<>>, raised |-> TRUE]
       ELSE [cursor |-> Min(Len(mono_data),
                            playhead_position +
                              new_position(x_relative(x_pos, width), width,
                                           Len(mono_data))),
             moved |-> TRUE, signals |-> <<"seeked">>, raised |-> FALSE]

\* WaveformWidget.seek_to_position(x_pos) on a widget ww wide: the cursor
\* after the call and the signals emitted.  A drawable width of 0 raises
\* ZeroDivisionError before any field is written.
seek_to_position(x_pos, ww) ==
    LET width == ww - 2 * WAVEFORM_PADDING
    IN IF audio_data = NoData
       THEN [cursor |-> playhead_position, moved |-> FALSE,
             signals |-> <<>>, raised |-> FALSE]
       ELSE IF width = 0
       THEN [cursor |-> playhead_position, moved |-> FALSE,
             signals |-> <<>>, raised |-> TRUE]
       ELSE [cursor |-> new_position(x_relative(x_pos, width), width,
                                     Len(mono_data)),
             moved |-> TRUE, signals |-> <<"seeked">>, raised |-> FALSE]

\* Handler: seek_to_position(x_pos) on the GUI thread.  Its one access to
\* a shared field is the write of line 211.
SeekToPosition(x_pos, ww) ==
    /\ gui.pc = "idle"
    /\ \E k \in {seek_to_position(x_pos, ww)} :
          /\ playhead_position' = k.cursor
          /\ GuiCall(IF cb.pc = "idle"
                     THEN [Entry("seek_to_position") EXCEPT
                              !.x = x_pos,
                              !.width = ww - 2 * WAVEFORM_PADDING,
                              !.signals = k.signals,
                              !.raised = k.raised]
                     ELSE Entry("seek_to_position"),
                     "return")
    /\ GuiFrame
    /\ UNCHANGED <<audio_data, mono_data, caller_array, is_playing, stream,
                   playback_timer, open_streams, running, started>>

\* Handler: mousePressEvent with the left button and no modifier: the seek
\* (line 190), then play_audio unless playing (lines 191-192).  An
\* exception of the seek leaves the handler.
MousePressEvent(x_pos, ww) ==
    /\ gui.pc = "idle"
    /\ Unused # {}
    /\ \E k \in {seek_to_position(x_pos, ww)} :
          /\ playhead_position' = k.cursor
          /\ GuiCall(IF cb.pc = "idle"
                     THEN [Entry("mousePressEvent") EXCEPT
                              !.signals = k.signals,
                              !.raised = k.raised]
                     ELSE Entry("mousePressEvent"),
                     IF audio_data = NoData \/ k.raised
                     THEN "return" ELSE "191")
    /\ GuiFrame
    /\ UNCHANGED <<audio_data, mono_data, caller_array, is_playing, stream,
                   playback_timer, open_streams, running, started>>

\* Line 191, if not self.is_playing, and the guard of play_audio (line
\* 145), which reads is_playing again: the callback never sets it, so the
\* two reads agree whenever the first finds it false.
PressPlay ==
    /\ gui.pc = "191"
    /\ GuiMove(IF CanPlay /\ ~gui.alone
               THEN [gui EXCEPT !.op = "play_audio"] ELSE gui,
               IF CanPlay THEN "146" ELSE "return")
    /\ GuiFrame
    /\ UNCHANGED <<audio_data, mono_data, caller_array, is_playing,
                   playhead_position, stream, playback_timer, open_streams,
                   running, started, outdata>>

(* ---------------------------------------------------------------------- *)
(* paintEvent                                                              *)
(* ---------------------------------------------------------------------- *)

\* The arguments (i, n, width) at which the double product i * (n / width)
\* falls below the integer i * n / width, for n <= 17 and width <= 13:
\* n / width is rounded down and int() then truncates to one less.
RoundedDown == {<<11, 15, 11>>, <<13, 15, 13>>}

\* int(i * samples_per_pixel) with samples_per_pixel = n / width, as IEEE
\* doubles compute it (lines 256, 260, 261).
PixelIndex(i, n, width) ==
    IF <<i, n, width>> \in RoundedDown
    THEN (i * n) \div width - 1
    ELSE (i * n) \div width

Abs(v) == IF v < 0 THEN 0 - v ELSE v

\* np.max(np.abs(mono[lo:hi])) for a non-empty slice, lo and hi counted
\* from 0.
RECURSIVE MaxAbs(_, _, _)
MaxAbs(mono, lo, hi) ==
    IF hi - lo = 1
    THEN Abs(mono[lo + 1])
    ELSE Max(Abs(mono[lo + 1]), MaxAbs(mono, lo + 1, hi))

\* paintEvent, lines 256-269: resampled_data for the signal mono and a
\* drawable width > 0.
resampled_data(mono, width) ==
    [p \in 1..width |->
        LET start == PixelIndex(p - 1, Len(mono), width)
            end == Min(PixelIndex(p, Len(mono), width), Len(mono))
        IN IF start < Len(mono)
           THEN IF end - start > 0 THEN MaxAbs(mono, start, end) ELSE 0
           ELSE 0]

\* The playhead line without the padding offset.
playhead_x_unpadded(cursor, width, n) == (cursor * width) \div n

\* paintEvent, lines 304-308: int(playhead_x), for n > 0.
playhead_x(cursor, width, n) == (cursor * width) \div n + WAVEFORM_PADDING

\* The latest handler was a seek that moved the cursor and that no
\* callback ran alongside.
Seeked ==
    last.op = "seek_to_position" /\ last.alone /\ last.signals # <<>>

\* Handler: paintEvent on a widget ww wide, up to the first operand of
\* line 303, self.is_playing.  It writes no field; what it draws is
\* recorded, and in x the column of the seek just before it on a widget of
\* the same width.  mono_data is None exactly when audio_data is (the GUI
\* thread assigns both), so line 240 is one test.
PaintEvent(ww) ==
    /\ gui.pc = "idle"
    /\ LET width == ww - 2 * WAVEFORM_PADDING
           e == [Entry("paintEvent") EXCEPT
                    !.width = width,
                    !.x = IF Seeked /\ last.width = width /\ cb.pc = "idle"
                          THEN last.x ELSE NoColumn]
       IN IF audio_data = NoData \/ width <= 0
          THEN GuiCall(e, "return")
          ELSE GuiCall([e EXCEPT !.envelope =
                                    IF e.alone
                                    THEN resampled_data(mono_data, width)
                                    ELSE <<>>],
                       IF is_playing THEN "304" ELSE "303")
    /\ GuiFrame
    /\ UNCHANGED <<audio_data, mono_data, caller_array, is_playing,
                   playhead_position, stream, playback_timer, open_streams,
                   running, started>>

\* Line 303, the second operand: self.playhead_position > 0.
PaintCursor ==
    /\ gui.pc = "303"
    /\ GuiMove(gui, IF playhead_position > 0 THEN "304" ELSE "return")
    /\ GuiFrame
    /\ UNCHANGED <<audio_data, mono_data, caller_array, is_playing,
                   playhead_position, stream, playback_timer, open_streams,
                   running, started, outdata>>

\* Line 304: the cursor is read for the column of the playhead.  An
\* empty signal divides by zero.
PaintPlayhead ==
    /\ gui.pc = "304"
    /\ GuiMove(IF Len(mono_data) = 0
               THEN [gui EXCEPT !.raised = gui.alone]
               ELSE [gui EXCEPT !.column =
                                   IF gui.alone
                                   THEN playhead_x(playhead_position,
                                                   gui.width, Len(mono_data))
                                   ELSE NoColumn],
               "return")
    /\ GuiFrame
    /\ UNCHANGED <<audio_data, mono_data, caller_array, is_playing,
                   playhead_position, stream, playback_timer, open_streams,
                   running, started, outdata>>

(* ---------------------------------------------------------------------- *)
(* audio_callback, line by line                                            *)
(* ---------------------------------------------------------------------- *)

\* outdata[lo:] = rows, as numpy assigns: rows of the same count are copied,
\* one row is broadcast to every target row, anything else raises
\* ValueError and writes nothing.
CanAssign(count, rows) == Len(rows) = count \/ Len(rows) = 1
Broadcast_first(count, rows) == [i \in 1..count |-> rows[1]]
Broadcast(count, rows) ==
    [i \in 1..count |-> IF Len(rows) = 1 THEN rows[1] ELSE rows[i]]

\* The remainder of the block left unwritten.
ZeroFill_skipped(count) == [i \in 1..count |-> NoFrame]

\* outdata[lo:] = 0 (line 137).
ZeroFill(count) == [i \in 1..count |-> ZeroFrame]

\* The callback leaves the cursor where it found it.
AdvanceCursor_stalled(pos, frames) == pos

\* The cursor after a callback whose chunk filled all the frames (line 141).
AdvanceCursor(pos, frames) == pos + frames

\* The cursor after a callback that wrapped (line 134).
WrapCursor(remaining_frames) == remaining_frames

\* The exhausted callback rewinds the cursor.
ExhaustedCursor_rewound(pos) == 0

\* The cursor after a callback that ran out of buffer without looping
\* (lines 135-138): no statement of that branch assigns it.
ExhaustedCursor(pos) == pos

\* The callback does not test is_playing.
CallbackActive_any == TRUE

\* The second operand of line 118: with a buffer loaded, the callback
\* produces audio when is_playing.
CallbackActive == is_playing

\* WaveformWidget.audio_callback while a buffer is loaded and is_playing:
\* the output block, the cursor, and whether the callback raised or called
\* stop_playback.
audio_callback(a, pos, frames, looping) ==
    LET data == get_current_audio_chunk(a, pos, frames)
        got == shape1(data)
        remaining_frames == frames - got
        additional_data == get_current_audio_chunk(a, 0, remaining_frames)
        blank == [i \in 1..remaining_frames |-> NoFrame]
    IN IF got < frames
       THEN IF looping
            THEN IF CanAssign(remaining_frames, Transpose(additional_data))
                 THEN [out |-> Transpose(data) \o
                               Broadcast(remaining_frames,
                                         Transpose(additional_data)),
                       cursor |-> WrapCursor(remaining_frames),
                       raised |-> FALSE, stops |-> FALSE]
                 ELSE \* line 133 raises after lines 128 and 132 have run
                      [out |-> Transpose(data) \o blank,
                       cursor |-> 0,
                       raised |-> TRUE, stops |-> FALSE]
            ELSE [out |-> Transpose(data) \o ZeroFill(remaining_frames),
                  cursor |-> ExhaustedCursor(pos),
                  raised |-> FALSE, stops |-> TRUE]
       ELSE [out |-> Transpose(data),
             cursor |-> AdvanceCursor(pos, frames),
             raised |-> FALSE, stops |-> FALSE]

\* What the history keeps of the callback c that returns.
CallbackRecord(c) ==
    IF c.alone
    THEN [NoOp EXCEPT !.op = "audio_callback",
                      !.frames = c.frames,
                      !.playing = c.found.is_playing,
                      !.cursor = c.found.playhead_position,
                      !.loaded = (c.found.audio_data # NoData),
                      !.held = (c.found.stream # None),
                      !.found = c.found,
                      !.signals = c.signals,
                      !.raised = c.raised,
                      !.replay = c.replay]
    ELSE [NoOp EXCEPT !.op = "audio_callback",
                      !.alone = FALSE,
                      !.race = IF c.seeks > 0
                               THEN [c EXCEPT !.pc = "done"]
                               ELSE NoOp.race]

\* The audio thread moves to line pc of its callback c, or returns from
\* it.
CbMove(c, pc) ==
    IF pc = "return"
    THEN /\ cb' = NoCallback
         /\ last' = IF gui.pc = "idle" THEN CallbackRecord(c) ELSE NoOp
    ELSE /\ cb' = InStop([c EXCEPT !.pc = pc])
         /\ last' = IF cb.pc = "idle" THEN NoOp ELSE last

\* What every step of the audio thread leaves alone.
CbFrame ==
    /\ gui' = InterruptedGui
    /\ UNCHANGED <<audio_data, mono_data, caller_array, is_looping,
                   generated, normalized, faded>>

\* Handler: audio_callback(outdata, frames, time, status) on the audio
\* thread, for a running stream, up to the first operand of line 118,
\* self.audio_data is not None; outdata arrives unwritten.  The callbacks
\* of two running streams are made one after the other.
AudioCallback(frames) ==
    /\ cb.pc = "idle"
    /\ outdata' = Block([i \in 1..frames |-> NoFrame])
    /\ \E s \in running :
          LET c == [NoCallback EXCEPT
                       !.stream = s,
                       !.frames = frames,
                       !.alone = (gui.pc = "idle"),
                       !.found = IF gui.pc = "idle" THEN Found ELSE NoFound,
                       !.replay = IF gui.pc = "idle" /\ last.op = "play_audio"
                                     /\ last.alone /\ last.replay = frames
                                     /\ audio_data # NoData
                                     /\ CallbackActive
                                  THEN frames ELSE 0]
          IN CbMove(c, IF audio_data # NoData THEN "118" ELSE "return")
    /\ CbFrame
    /\ UNCHANGED <<is_playing, playhead_position, stream, playback_timer,
                   open_streams, running, started>>

\* Line 118, the second operand: self.is_playing.
CbPlaying ==
    /\ cb.pc = "118"
    /\ CbMove(cb, IF CallbackActive THEN "97" ELSE "return")
    /\ CbFrame
    /\ UNCHANGED <<is_playing, playhead_position, stream, playback_timer,
                   open_streams, running, started, outdata>>

\* The steps of get_current_audio_chunk carry the suffix b in the call of
\* line 129, which asks for the shortfall.

\* The callback c raises: an exception leaves audio_callback.
CbRaise(c) == CbMove([c EXCEPT !.raised = TRUE, !.pos = 0, !.arr = NoData,
                               !.end_pos = 0],
                     "return")

\* Line 97: if self.audio_data is None, return None.  The caller then
\* raises AttributeError, at line 122 (data.shape) or, after line 132, at
\* line 133 (additional_data.T).
CbGuard ==
    /\ cb.pc \in {"97", "97b"}
    /\ IF audio_data # NoData
       THEN /\ UNCHANGED outdata
            /\ CbMove(cb, IF cb.pc = "97" THEN "100" ELSE "100b")
       ELSE /\ outdata' =
                  IF cb.pc = "97"
                  THEN outdata
                  ELSE Block(Transpose(cb.data)
                               \o [i \in 1..cb.remaining_frames |-> NoFrame])
            /\ CbRaise(cb)
    /\ CbFrame
    /\ UNCHANGED <<is_playing, playhead_position, stream, playback_timer,
                   open_streams, running, started>>

\* Line 100, the first operand of min(): self.playhead_position is read.
CbCursor ==
    /\ cb.pc \in {"100", "100b"}
    /\ CbMove([cb EXCEPT !.pos = playhead_position],
              IF cb.pc = "100" THEN "100len" ELSE "100lenb")
    /\ CbFrame
    /\ UNCHANGED <<is_playing, playhead_position, stream, playback_timer,
                   open_streams, running, started, outdata>>

\* Line 100, the second operand: end_pos = min(<the cursor read> + frames,
\* len(self.audio_data[0])), for the frames asked first and for the
\* shortfall.  Without a buffer the subscript raises TypeError.
CbEndPos ==
    /\ cb.pc \in {"100len", "100lenb"}
    /\ IF audio_data = NoData
       THEN CbRaise(cb)
       ELSE CbMove([cb EXCEPT
                       !.pos = 0,
                       !.end_pos =
                          Min(cb.pos + (IF cb.pc = "100len" THEN cb.frames
                                        ELSE cb.remaining_frames),
                              shape1(audio_data))],
                   IF cb.pc = "100len" THEN "101" ELSE "101b")
    /\ CbFrame
    /\ UNCHANGED <<is_playing, playhead_position, stream, playback_timer,
                   open_streams, running, started, outdata>>

\* Line 101, the array: self.audio_data is read, an array or None.
CbArray ==
    /\ cb.pc \in {"101", "101b"}
    /\ CbMove([cb EXCEPT !.arr = audio_data],
              IF cb.pc = "101" THEN "101pos" ELSE "101posb")
    /\ CbFrame
    /\ UNCHANGED <<is_playing, playhead_position, stream, playback_timer,
                   open_streams, running, started, outdata>>

\* Lines 101-105: the slice arr[:, pos:end_pos].copy() of the array read,
\* and the fade-in when the cursor is 0.
ChunkFrom(arr, pos, end_pos) ==
    LET data == Slice(arr, pos, end_pos)
    IN IF pos = 0 THEN apply_fade_in(data) ELSE data

\* Lines 108-109: the fade-out when end_pos is the length of the buffer.
FadedOut(data, end_pos) ==
    IF end_pos = shape1(audio_data) THEN apply_fade_out(data) ELSE data

\* Line 101, the slice: self.playhead_position is read and the array read
\* before is sliced; the subscript raises TypeError when None was read.
\* Line 104 reads the cursor once more, to choose between the chunk and
\* apply_fade_in of it, which returns every chunk of 2 channels as it is,
\* so the value read there selects nothing.
CbSlice ==
    /\ cb.pc \in {"101pos", "101posb"}
    /\ IF cb.arr = NoData
       THEN CbRaise(cb)
       ELSE LET data == ChunkFrom(cb.arr, playhead_position, cb.end_pos)
            IN IF cb.pc = "101pos"
               THEN CbMove([cb EXCEPT !.arr = NoData, !.data = data], "108")
               ELSE CbMove([cb EXCEPT !.arr = NoData,
                                      !.additional_data = data],
                           "108b")
    /\ CbFrame
    /\ UNCHANGED <<is_playing, playhead_position, stream, playback_timer,
                   open_streams, running, started, outdata>>

\* Line 108 of the first chunk, which reads self.audio_data (TypeError on
\* None), and lines 122-140: the chunk is short and the callback wraps
\* (line 128 follows), or it is short and the block is completed with
\* zeros (stop_playback follows), or it is assigned to the whole block,
\* which raises ValueError when its rows neither match the block nor are
\* one row.
CbBlock ==
    /\ cb.pc = "108"
    /\ IF audio_data = NoData
       THEN /\ UNCHANGED <<outdata, playhead_position>>
            /\ CbRaise([cb EXCEPT !.data = NoCallback.data])
       ELSE LET data == FadedOut(cb.data, cb.end_pos)
                got == shape1(data)
                rows == Transpose(data)
                c == [cb EXCEPT !.end_pos = 0, !.data = NoCallback.data]
            IN IF got < cb.frames /\ is_looping
               THEN /\ UNCHANGED <<outdata, playhead_position>>
                    /\ CbMove([c EXCEPT
                                  !.data = data,
                                  !.remaining_frames = cb.frames - got],
                              "128")
               ELSE IF got < cb.frames
               THEN /\ outdata' = Block(rows \o ZeroFill(cb.frames - got))
                    /\ playhead_position' =
                          ExhaustedCursor(playhead_position)
                    /\ CbMove([c EXCEPT !.stops = TRUE], "165")
               ELSE IF CanAssign(cb.frames, rows)
               THEN /\ outdata' = Block(Broadcast(cb.frames, rows))
                    /\ UNCHANGED playhead_position
                    /\ CbMove(c, "141")
               ELSE /\ UNCHANGED <<outdata, playhead_position>>
                    /\ CbRaise([c EXCEPT !.data = data])
    /\ CbFrame
    /\ UNCHANGED <<is_playing, stream, playback_timer, open_streams, running,
                   started>>

\* Line 128: self.playhead_position = 0.
CbRewind ==
    /\ cb.pc = "128"
    /\ playhead_position' = 0
    /\ CbMove(cb, "97b")
    /\ CbFrame
    /\ UNCHANGED <<is_playing, stream, playback_timer, open_streams, running,
                   started, outdata>>

\* Line 108 of the second chunk, which reads self.audio_data (TypeError
\* on None), and lines 132-133, the two assignments; the second raises
\* ValueError when the additional rows neither match the rest of the block
\* nor are one row.
CbCombine ==
    /\ cb.pc = "108b"
    /\ IF audio_data = NoData
       THEN /\ UNCHANGED outdata
            /\ CbRaise([cb EXCEPT !.additional_data = NoCallback.data])
       ELSE LET rows == Transpose(cb.data)
                additional_data == FadedOut(cb.additional_data, cb.end_pos)
                more == Transpose(additional_data)
                c == [cb EXCEPT !.end_pos = 0,
                                !.additional_data = NoCallback.data]
            IN IF CanAssign(cb.remaining_frames, more)
               THEN /\ outdata' =
                          Block(rows \o Broadcast(cb.remaining_frames, more))
                    /\ CbMove([c EXCEPT !.data = NoCallback.data], "134")
               ELSE /\ outdata' =
                          Block(rows \o [i \in 1..cb.remaining_frames
                                           |-> NoFrame])
                    /\ CbRaise([c EXCEPT
                                   !.additional_data = additional_data])
    /\ CbFrame
    /\ UNCHANGED <<is_playing, playhead_position, stream, playback_timer,
                   open_streams, running, started>>

\* Line 134: self.playhead_position = remaining_frames.
CbStoreWrap ==
    /\ cb.pc = "134"
    /\ playhead_position' = WrapCursor(cb.remaining_frames)
    /\ CbMove(cb, "return")
    /\ CbFrame
    /\ UNCHANGED <<is_playing, stream, playback_timer, open_streams, running,
                   started, outdata>>

\* Line 141, self.playhead_position += frames: the read, then the write.
CbLoad ==
    /\ cb.pc = "141"
    /\ CbMove([cb EXCEPT
                  !.loaded = playhead_position],
              "141=")
    /\ CbFrame
    /\ UNCHANGED <<is_playing, playhead_position, stream, playback_timer,
                   open_streams, running, started, outdata>>

CbStore ==
    /\ cb.pc = "141="
    /\ playhead_position' = AdvanceCursor(cb.loaded, cb.frames)
    /\ CbMove(cb, "return")
    /\ CbFrame
    /\ UNCHANGED <<is_playing, stream, playback_timer, open_streams, running,
                   started, outdata>>

\* The next step of the stop_playback that the callback calls at line
\* 138, on the audio thread.  No callback of another stream is in progress
\* on that thread, and its stop() does not wait for the callback it is
\* called from.
AudioStop(so) ==
    /\ cb.pc \in StopLines
    /\ \E r \in {stop_step(cb.pc, so, cb.obj)} :
          /\ is_playing' = r.is_playing
          /\ stream' = r.stream
          /\ playback_timer' = r.playback_timer
          /\ open_streams' = r.open_streams
          /\ running' = r.running
          /\ started' = IF r.emits THEN FALSE ELSE started
          /\ CbMove([cb EXCEPT
                        !.obj = r.obj,
                        !.raised = r.raised \/ @,
                        !.signals = IF r.emits /\ cb.alone
                                    THEN Append(@, "playbackStopped")
                                    ELSE @],
                    r.pc)
    /\ CbFrame
    /\ UNCHANGED <<playhead_position, outdata>>

(* ---------------------------------------------------------------------- *)
(* The playback session                                                    *)
(* ---------------------------------------------------------------------- *)

\* The lines of the handler the GUI thread is in.
GuiStep ==
    \/ \E so \in StopChoices(gui.pc, gui.obj) : GuiStop(so)
    \/ SetStore
    \/ SetReset
    \/ PlaySet
    \/ \E oo \in {"ok", "open_fails"} : PlayOpen(oo)
    \/ PlayStore
    \/ PlayLoad
    \/ \E oo \in {"ok", "start_fails"} : PlayStart(oo)
    \/ PlayTimer
    \/ PlayEmit
    \/ PressPlay
    \/ PaintCursor
    \/ PaintPlayhead

\* The lines of the callback the audio thread is in, and of the
\* stop_playback it calls.
CbStep ==
    \/ CbPlaying
    \/ CbGuard
    \/ CbCursor
    \/ CbEndPos
    \/ CbArray
    \/ CbSlice
    \/ CbBlock
    \/ CbRewind
    \/ CbCombine
    \/ CbStoreWrap
    \/ CbLoad
    \/ CbStore
    \/ \E so \in StopChoices(cb.pc, cb.obj) : AudioStop(so)

Next ==
    \/ \E buf \in Buffers \cup {NoData} : SetAudioData(buf)
    \/ PlayAudio
    \/ StopPlayback
    \/ \E x \in XPositions, ww \in WidgetWidths : SeekToPosition(x, ww)
    \/ \E x \in XPositions, ww \in WidgetWidths : MousePressEvent(x, ww)
    \/ \E ww \in WidgetWidths : PaintEvent(ww)
    \/ GuiStep
    \/ \E f \in Frames : AudioCallback(f)
    \/ CbStep

Spec == Init /\ [][Next]_vars

(* ---------------------------------------------------------------------- *)
(* AudioGenerator.normalize_audio, in the worker and in save_audio         *)
(* ---------------------------------------------------------------------- *)

\* Samples are rationals <<numerator, denominator>> in lowest terms with a
\* positive denominator.  The float arithmetic of line 211 is modelled by
\* exact arithmetic: the peak sample comes out as the double 0.9 exactly and
\* a second pass returns every sample of the first bit for bit.
RECURSIVE GCD(_, _)
GCD(a, b) == IF b = 0 THEN a ELSE GCD(b, a % b)
Q(n, d) ==
    LET g == GCD(Abs(n), Abs(d))
        s == IF d < 0 THEN 0 - 1 ELSE 1
    IN <<(s * n) \div g, (s * d) \div g>>
QAbs(q) == <<Abs(q[1]), q[2]>>
QLess(p, q) == p[1] * q[2] < q[1] * p[2]
QMul(p, q) == Q(p[1] * q[1], p[2] * q[2])
QDiv(p, q) == Q(p[1] * q[2], p[2] * q[1])
QZero == <<0, 1>>
Headroom == <<9, 10>>

\* np.max(np.abs(audio_data)) of an array with one element or more.
Peak(arr) ==
    CHOOSE m \in {QAbs(arr.data[k]) : k \in 1..Len(arr.data)} :
       \A k \in 1..Len(arr.data) : ~QLess(m, QAbs(arr.data[k]))

\* normalize_audio, lines 204-216.  np.max of an array with no element
\* raises ValueError, which line 214 logs and raises again.
normalize_audio_full_scale(arr) ==
    IF Len(arr.data) = 0 THEN [error |-> "ValueError", audio |-> NoArray]
    ELSE IF QLess(QZero, Peak(arr))
    THEN [error |-> "none",
          audio |-> [shape |-> arr.shape,
                     data |-> [k \in 1..Len(arr.data) |->
                                 QDiv(arr.data[k], Peak(arr))]]]
    ELSE [error |-> "none", audio |-> arr]
normalize_audio(arr) ==
    IF Len(arr.data) = 0 THEN [error |-> "ValueError", audio |-> NoArray]
    ELSE IF QLess(QZero, Peak(arr))
    THEN [error |-> "none",
          audio |-> [shape |-> arr.shape,
                     data |-> [k \in 1..Len(arr.data) |->
                                 QMul(QDiv(arr.data[k], Peak(arr)), Headroom)]]]
    ELSE [error |-> "none", audio |-> arr]

\* The 2 x c buffers handed to normalize_audio, c from 0.
Amplitudes == {Q(n, 1) : n \in (0 - MaxAmplitude)..MaxAmplitude}
SampleBuffers ==
    UNION {{[shape |-> <<2, c>>, data |-> d] :
               d \in [1..(2 * c) -> Amplitudes]} : c \in 0..MaxSamples}

\* Handler: GeneratorThread.run from line 50 on: the worker normalizes the
\* buffer that generate returned; an exception becomes the error signal.
NormalizeAudio ==
    /\ ~normalized.done
    /\ normalized' =
          [done |-> TRUE, op |-> "run", input |-> normalized.input,
           output |-> normalize_audio(normalized.input).audio,
           error |-> normalize_audio(normalized.input).error]
    /\ UNCHANGED <<widget_vars, caller_array, cb, generated, faded>>

\* Handler: save_audio on the buffer the worker emitted (main.py line 159):
\* lines 185-186 normalize it again before it is written.
SaveAudio ==
    /\ normalized.done
    /\ normalized.op = "run"
    /\ normalized.error = "none"
    /\ normalized' =
          [done |-> TRUE, op |-> "save_audio", input |-> normalized.output,
           output |-> normalize_audio(normalized.output).audio,
           error |-> normalize_audio(normalized.output).error]
    /\ UNCHANGED <<widget_vars, caller_array, cb, generated, faded>>

\* The worker holds the buffer that generate returned.
InitNormalize ==
    /\ audio_data = NoData
    /\ mono_data = NoData
    /\ is_playing = FALSE
    /\ is_looping = TRUE
    /\ playhead_position = 0
    /\ stream = None
    /\ playback_timer = FALSE
    /\ open_streams = {}
    /\ outdata = <<>>
    /\ last = NoOp
    /\ generated = NoGeneration
    /\ normalized \in {[NoNormalization EXCEPT !.input = buf] :
                          buf \in SampleBuffers}
    /\ faded = NoFade
    /\ caller_array = NoCaller
    /\ cb = NoCallback
    /\ gui = NoOp
    /\ running = {}
    /\ started = FALSE

NextNormalize ==
    \/ NormalizeAudio
    \/ SaveAudio

SpecNormalize == InitNormalize /\ [][NextNormalize]_vars

(* ---------------------------------------------------------------------- *)
(* AudioFader for every fade_samples, on buffers of rational samples       *)
(* ---------------------------------------------------------------------- *)

\* np.linspace(0, 1, n)[i] and np.linspace(1, 0, n)[i], i from 0; with
\* n = 1 the single point is the start value.
LinspaceUp(n, i) == IF n = 1 THEN QZero ELSE Q(i, n - 1)
LinspaceDown(n, i) == IF n = 1 THEN Q(1, 1) ELSE Q(n - 1 - i, n - 1)

\* view *= fade for a view of 2 x v samples and a fade of n points: numpy
\* broadcasts a fade of one point, and raises ValueError for any other
\* difference of the two lengths.
CanMultiply(v, n) == v = n \/ n = 1

\* AudioFader.apply_fade_in (lines 16-23) of a fader with n fade samples.
FaderGuard(a, n) == len(a) < n
fade_in(a, n) ==
    IF FaderGuard(a, n) THEN [error |-> "none", data |-> a]
    ELSE LET v == Min(n, shape1(a))
         IN IF ~CanMultiply(v, n) THEN [error |-> "ValueError", data |-> a]
            ELSE [error |-> "none",
                  data |-> [c \in 1..Len(a) |->
                              [i \in 1..Len(a[c]) |->
                                 IF i <= v
                                 THEN QMul(a[c][i],
                                           LinspaceUp(n, IF n = 1 THEN 0 ELSE i - 1))
                                 ELSE a[c][i]]]]

\* AudioFader.apply_fade_out (lines 25-32); a[:, -n:] is the last n samples,
\* and the whole array when n = 0 or n exceeds its length.
fade_out(a, n) ==
    IF FaderGuard(a, n) THEN [error |-> "none", data |-> a]
    ELSE LET v == IF n = 0 THEN shape1(a) ELSE Min(n, shape1(a))
             first == shape1(a) - v
         IN IF ~CanMultiply(v, n) THEN [error |-> "ValueError", data |-> a]
            ELSE [error |-> "none",
                  data |-> [c \in 1..Len(a) |->
                              [i \in 1..Len(a[c]) |->
                                 IF i > first
                                 THEN QMul(a[c][i],
                                           LinspaceDown(n, IF n = 1 THEN 0
                                                           ELSE i - 1 - first))
                                 ELSE a[c][i]]]]

\* The 2 x c buffers handed to a fader, no sample of them zero.
FadeBuf(c) == <<[i \in 1..c |-> Q(i, 1)], [i \in 1..c |-> Q(0 - i - 1, 1)]>>
FadeBuffers == {FadeBuf(c) : c \in 0..MaxFadeLen}
FadeSamples == 0..MaxFade

\* Handlers: apply_fade_in and apply_fade_out on the buffer the fader
\* returned last (get_current_audio_chunk chains them, lines 104-109).
ApplyFadeIn ==
    /\ faded.calls < MaxFadeCalls
    /\ faded.error = "none"
    /\ faded' = [faded EXCEPT
                    !.calls = @ + 1, !.op = "apply_fade_in",
                    !.input = faded.output,
                    !.output = fade_in(faded.output, faded.fade_samples).data,
                    !.error = fade_in(faded.output, faded.fade_samples).error]
    /\ UNCHANGED <<widget_vars, caller_array, cb, generator_vars>>

ApplyFadeOut ==
    /\ faded.calls < MaxFadeCalls
    /\ faded.error = "none"
    /\ faded' = [faded EXCEPT
                    !.calls = @ + 1, !.op = "apply_fade_out",
                    !.input = faded.output,
                    !.output = fade_out(faded.output, faded.fade_samples).data,
                    !.error = fade_out(faded.output, faded.fade_samples).error]
    /\ UNCHANGED <<widget_vars, caller_array, cb, generator_vars>>

\* A fader AudioFader(fade_ms) and a buffer about to be handed to it.
InitFader ==
    /\ audio_data = NoData
    /\ mono_data = NoData
    /\ is_playing = FALSE
    /\ is_looping = TRUE
    /\ playhead_position = 0
    /\ stream = None
    /\ playback_timer = FALSE
    /\ open_streams = {}
    /\ outdata = <<>>
    /\ last = NoOp
    /\ generated = NoGeneration
    /\ normalized = NoNormalization
    /\ faded \in {[NoFade EXCEPT !.fade_samples = n, !.input = buf,
                                 !.output = buf] :
                     n \in FadeSamples, buf \in FadeBuffers}
    /\ caller_array = NoCaller
    /\ cb = NoCallback
    /\ gui = NoOp
    /\ running = {}
    /\ started = FALSE

NextFader ==
    \/ ApplyFadeIn
    \/ ApplyFadeOut

SpecFader == InitFader /\ [][NextFader]_vars

(* ---------------------------------------------------------------------- *)
(* The session while the caller of set_audio_data writes to its array      *)
(* ---------------------------------------------------------------------- *)

\* The caller's array after it has overwritten every sample (main.py keeps
\* the array as current_audio after line 163).
Overwritten(buf) == [c \in 1..Len(buf) |-> [i \in 1..Len(buf[c]) |-> 0 - buf[c][i]]]

\* The caller, on the GUI thread, writes to the array it handed over, once
\* per hand-over; the write reaches the widget's buffer if that is the same
\* object.
MutateCallerArray ==
    /\ gui.pc = "idle"
    /\ caller_array.data # NoData
    /\ caller_array.data = caller_array.loaded
    /\ caller_array' = [caller_array EXCEPT !.data = Overwritten(@)]
    /\ audio_data' = IF caller_array.shared
                     THEN Overwritten(caller_array.data)
                     ELSE audio_data
    /\ cb' = InterruptedCb
    /\ UNCHANGED <<mono_data, is_playing, is_looping, playhead_position,
                   stream, playback_timer, open_streams, running, outdata,
                   started, last, gui, generator_vars, faded>>

\* The one widget width of this specification.
WideWidget == 2 * WAVEFORM_PADDING + MaxWidth

\* The lines of the handlers of the GUI thread other than mousePressEvent.
BufferGuiStep ==
    \/ \E so \in StopChoices(gui.pc, gui.obj) : GuiStop(so)
    \/ SetStore
    \/ SetReset
    \/ PlaySet
    \/ \E oo \in {"ok", "open_fails"} : PlayOpen(oo)
    \/ PlayStore
    \/ PlayLoad
    \/ \E oo \in {"ok", "start_fails"} : PlayStart(oo)
    \/ PlayTimer
    \/ PlayEmit
    \/ PaintCursor
    \/ PaintPlayhead

NextBuffer ==
    \/ \E buf \in Buffers \cup {NoData} : SetAudioData(buf)
    \/ PlayAudio
    \/ StopPlayback
    \/ \E x \in XPositions : SeekToPosition(x, WideWidget)
    \/ PaintEvent(WideWidget)
    \/ BufferGuiStep
    \/ \E f \in Frames : AudioCallback(f)
    \/ CbStep
    \/ MutateCallerArray

SpecBuffer == Init /\ [][NextBuffer]_vars

(* ---------------------------------------------------------------------- *)
(* The session under a device that keeps calling back                      *)
(* ---------------------------------------------------------------------- *)

\* The device's callbacks, of any frame count, and their lines.
DeviceCallback ==
    \/ \E f \in Frames : AudioCallback(f)
    \/ CbStep

\* The lines of play_audio and stop_playback on the GUI thread.
LiveGuiStep ==
    \/ \E so \in StopChoices(gui.pc, gui.obj) : GuiStop(so)
    \/ PlaySet
    \/ \E oo \in {"ok", "open_fails"} : PlayOpen(oo)
    \/ PlayStore
    \/ PlayLoad
    \/ \E oo \in {"ok", "start_fails"} : PlayStart(oo)
    \/ PlayTimer
    \/ PlayEmit

\* A widget after set_audio_data(buf, path) of a buffer.
InitLive ==
    /\ audio_data \in Buffers
    /\ mono_data = MonoOf(audio_data)
    /\ is_playing = FALSE
    /\ is_looping \in BOOLEAN
    /\ playhead_position = 0
    /\ stream = None
    /\ playback_timer = FALSE
    /\ open_streams = {}
    /\ running = {}
    /\ outdata = <<>>
    /\ started = FALSE
    /\ last = NoOp
    /\ gui = NoOp
    /\ cb = NoCallback
    /\ generated = NoGeneration
    /\ normalized = NoNormalization
    /\ faded = NoFade
    /\ caller_array = [data |-> audio_data, loaded |-> audio_data,
                       shared |-> FALSE]

\* No seek and no set_audio_data follows: the user plays and stops.
NextLive ==
    \/ PlayAudio
    \/ StopPlayback
    \/ LiveGuiStep
    \/ DeviceCallback

\* PortAudio invokes the callback of a running stream for every block and
\* a thread that is inside a handler executes its next line, so a callback
\* or a line that stays possible is eventually run.
SpecLive ==
    InitLive /\ [][NextLive]_vars
        /\ WF_vars(DeviceCallback) /\ WF_vars(LiveGuiStep)

(* ---------------------------------------------------------------------- *)
(* Audio callbacks racing with seeks                                       *)
(* ---------------------------------------------------------------------- *)

\* Handler: seek_to_position(x_pos) on the GUI thread of a playing
\* session: between two callbacks, or between two lines of the callback in
\* progress, which counts its seeks up to one more than MaxSeeks and
\* records the latest of the first MaxSeeks.
RaceSeek(x_pos, ww) ==
    IF cb.pc = "idle"
    THEN SeekToPosition(x_pos, ww)
    ELSE /\ gui.pc = "idle"
         /\ \E k \in {seek_to_position(x_pos, ww)} :
               /\ playhead_position' = k.cursor
               /\ last' = Finish([Entry("seek_to_position") EXCEPT
                                     !.x = x_pos,
                                     !.width = ww - 2 * WAVEFORM_PADDING,
                                     !.signals = k.signals,
                                     !.raised = k.raised])
               /\ cb' = IF cb.seeks < MaxSeeks
                        THEN [cb EXCEPT
                                 !.alone = FALSE,
                                 !.found = NoFound,
                                 !.signals = <<>>,
                                 !.replay = 0,
                                 !.seeks = @ + 1,
                                 !.seek_from = playhead_position,
                                 !.seek_to = k.cursor,
                                 !.seek_at = cb.pc,
                                 !.held = @ \cup {playhead_position, k.cursor}]
                        ELSE [cb EXCEPT
                                 !.seeks = MaxSeeks + 1,
                                 !.seek_from = 0,
                                 !.seek_to = 0,
                                 !.seek_at = "none",
                                 !.held = @ \cup {playhead_position, k.cursor}]
         /\ UNCHANGED <<audio_data, mono_data, caller_array, is_playing,
                        is_looping, stream, playback_timer, open_streams,
                        running, started, outdata, gui, generated,
                        normalized, faded>>

\* A playing session: play_audio has succeeded on a loaded buffer, and
\* earlier seeks and callbacks have left the cursor anywhere in 0..len or,
\* with looping over a buffer of one frame, at the shortfall of a wrap
\* (line 134), which is up to MaxFrames.
InitRace ==
    /\ audio_data \in Buffers
    /\ mono_data = MonoOf(audio_data)
    /\ is_playing = TRUE
    /\ is_looping \in BOOLEAN
    /\ playhead_position \in
          0..(IF is_looping /\ shape1(audio_data) = 1
              THEN MaxFrames ELSE shape1(audio_data))
    /\ stream = Handle
    /\ playback_timer = TRUE
    /\ open_streams = {Handle}
    /\ running = {Handle}
    /\ outdata = <<>>
    /\ started = TRUE
    /\ last = [NoOp EXCEPT !.op = "play_audio", !.loaded = TRUE,
                           !.signals = <<"playbackStarted">>, !.opened = 1]
    /\ gui = NoOp
    /\ cb = NoCallback
    /\ generated = NoGeneration
    /\ normalized = NoNormalization
    /\ faded = NoFade
    /\ caller_array = [data |-> audio_data, loaded |-> audio_data,
                       shared |-> FALSE]

NextRace ==
    \/ \E f \in Frames : AudioCallback(f)
    \/ CbStep
    \/ \E x \in XPositions : RaceSeek(x, WideWidget)

SpecRace == InitRace /\ [][NextRace]_vars

(* ---------------------------------------------------------------------- *)
(* stop_playback of the callback racing with the GUI thread                *)
(* ---------------------------------------------------------------------- *)

\* A playing session without looping (HistoryWaveform): play_audio has
\* succeeded on a loaded buffer, and earlier seeks and callbacks have left
\* the cursor anywhere in 0..len.
InitTeardown == InitRace /\ is_looping = FALSE

\* The lines of play_audio and stop_playback on the GUI thread; the device
\* stops and closes every stream it is asked to.
TeardownGuiStep ==
    \/ GuiStop("ok")
    \/ PlaySet
    \/ \E oo \in {"ok", "open_fails"} : PlayOpen(oo)
    \/ PlayStore
    \/ PlayLoad
    \/ \E oo \in {"ok", "start_fails"} : PlayStart(oo)
    \/ PlayTimer
    \/ PlayEmit

\* The lines of a callback without looping: the wrap of lines 125-134 is
\* not reached.
TeardownCbStep ==
    \/ CbPlaying
    \/ CbGuard
    \/ CbCursor
    \/ CbEndPos
    \/ CbArray
    \/ CbSlice
    \/ CbBlock
    \/ CbLoad
    \/ CbStore

NextTeardown ==
    \/ \E f \in Frames : AudioCallback(f)
    \/ TeardownCbStep
    \/ AudioStop("ok")
    \/ PlayAudio
    \/ StopPlayback
    \/ TeardownGuiStep

SpecTeardown == InitTeardown /\ [][NextTeardown]_vars
(* ---------------------------------------------------------------------- *)
(* The envelope renderer: paintEvent over longer signals                   *)
(* ---------------------------------------------------------------------- *)

\* Signals for the envelope: both channels equal, magnitude growing with
\* alternating sign (kind 1), or silent up to a final peak (kind 2).
EnvBuf(n, kind) ==
    LET ch == [i \in 1..n |->
                 IF kind = 1
                 THEN (IF i % 2 = 0 THEN i ELSE 0 - i) * SampleUnit
                 ELSE (IF i = n THEN 0 - SampleUnit ELSE 0)]
    IN <<ch, ch>>
EnvBuffers == {EnvBuf(n, kind) : n \in 0..MaxSignal, kind \in {1, 2}}
EnvWidgetWidths ==
    (2 * WAVEFORM_PADDING)..(2 * WAVEFORM_PADDING + MaxPixels)

\* The widget after set_audio_data(buf), never played.
InitEnvelope ==
    /\ audio_data \in EnvBuffers
    /\ mono_data = MonoOf(audio_data)
    /\ is_playing = FALSE
    /\ is_looping = TRUE
    /\ playhead_position = 0
    /\ stream = None
    /\ playback_timer = FALSE
    /\ open_streams = {}
    /\ outdata = <<>>
    /\ last = [NoOp EXCEPT !.op = "set_audio_data"]
    /\ generated = NoGeneration
    /\ normalized = NoNormalization
    /\ faded = NoFade
    /\ caller_array = [data |-> audio_data, loaded |-> audio_data,
                       shared |-> FALSE]
    /\ cb = NoCallback
    /\ gui = NoOp
    /\ running = {}
    /\ started = FALSE

NextEnvelope ==
    \/ \E ww \in EnvWidgetWidths : PaintEvent(ww)
    \/ PaintCursor

SpecEnvelope == InitEnvelope /\ [][NextEnvelope]_vars

(* ---------------------------------------------------------------------- *)
(* The generator: generate over the arrays the backend may return          *)
(* ---------------------------------------------------------------------- *)

\* What the backend returns: rank 1 (n), rank 2 (a, b), rank 3 (B, a, b).
RawOutputs ==
    {Array(<<n>>) : n \in 0..MaxAxis}
    \cup {Array(<<a, b>>) : a \in 0..MaxAxis, b \in 0..MaxAxis}
    \cup {Array(<<B, a, b>>) :
             B \in 1..MaxBatch, a \in 0..MaxAxis, b \in 0..MaxAxis}
Targets == 0..MaxTarget

\* Handler: generate, from the backend's output raw on (lines 106-156), for
\* a duration of target_samples samples.  An exception is logged and raised
\* again (lines 158-164).
Generate(raw, target_samples) ==
    LET c == canonicalize(raw)
    IN /\ generated' =
            [done |-> TRUE, raw |-> raw, target_samples |-> target_samples,
             canonical |-> c.audio,
             audio |-> IF c.error = "none"
                       THEN fit_duration(c.audio, target_samples)
                       ELSE NoArray,
             error |-> c.error]
       /\ UNCHANGED <<widget_vars, caller_array, cb, normalized, faded>>

InitGenerate == Init

NextGenerate ==
    \E raw \in RawOutputs, target_samples \in Targets :
       Generate(raw, target_samples)

SpecGenerate == InitGenerate /\ [][NextGenerate]_vars

(* ---------------------------------------------------------------------- *)
(* Properties                                                              *)
(* ---------------------------------------------------------------------- *)

\* The per-channel length of the loaded buffer.
L == shape1(audio_data)

\* The frame of the loaded buffer at index i, counted from 0.
FrameAt(i) == <<audio_data[1][i + 1], audio_data[2][i + 1]>>

\* Neither thread is inside a handler.
Quiet == gui.pc = "idle" /\ cb.pc = "idle"

\* The latest handler to return ran one at a time: the other thread was in
\* no handler from its call to its return.
RanAlone(name) == last.op = name /\ last.alone

\* The latest handler was a callback, run one at a time, that found a
\* buffer and is_playing.
PlayedCallback == RanAlone("audio_callback") /\ last.playing /\ last.loaded

\* The signals of the handler recorded in rec include sig.
Emitted(rec, sig) == \E i \in 1..Len(rec.signals) : rec.signals[i] = sig

\* C1: whenever both threads have returned and a buffer is loaded, the
\* cursor is within 0..L, L the per-channel length of the buffer.
C1_CursorInRange ==
    (Quiet /\ audio_data # NoData) =>
        0 <= playhead_position /\ playhead_position <= L

\* The session recorded in f is Idle (not playing, no stream held) or
\* Playing (playing, a stream held).
IdleOrPlaying(f) == f.is_playing <=> f.stream # None

\* C2: play_audio, stop_playback, set_audio_data and audio_callback, run
\* one at a time on a session that is Idle or Playing, each end with
\* is_playing true only if a stream handle is held.
C2_PlayingHoldsStream ==
    (/\ last.alone
     /\ last.op \in {"play_audio", "stop_playback", "set_audio_data",
                     "audio_callback"}
     /\ IdleOrPlaying(last.found)) =>
        (is_playing => stream # None)

\* C2 witness: play_audio opened a stream, starting it failed, and the
\* session is back to Idle.
C2_Witness ==
    /\ RanAlone("play_audio")
    /\ last.opened = 1
    /\ last.signals = <<"playbackStopped">>
    /\ ~is_playing
    /\ stream = None

\* C3: without looping, a callback of F frames that finds a = L - cursor < F
\* frames writes those a frames in order, then F - a zero frames, and leaves
\* the session Idle.
C3_TailThenSilence ==
    (PlayedCallback /\ ~is_looping /\ L - last.cursor < last.frames) =>
        /\ outdata = [i \in 1..last.frames |->
                        IF i <= L - last.cursor
                        THEN FrameAt(last.cursor + i - 1)
                        ELSE ZeroFrame]
        /\ ~is_playing
        /\ stream = None

\* C3 witness: such a callback that had both buffer frames and zeros to
\* write.
C3_Witness ==
    /\ PlayedCallback
    /\ ~is_looping
    /\ L - last.cursor < last.frames
    /\ L - last.cursor >= 1
    /\ outdata[1] = FrameAt(last.cursor)
    /\ outdata[last.frames] = ZeroFrame

\* C4: with looping, every callback that finds the session Playing returns
\* normally with all of its F output frames written.
C4_LoopFillsBlock ==
    (PlayedCallback /\ is_looping) =>
        /\ ~last.raised
        /\ Len(outdata) = last.frames
        /\ \A i \in 1..last.frames : outdata[i] # NoFrame

\* C5: with looping and no seek in between, the cursor after a callback
\* of F frames is (cursor before + F) mod L, for every starting cursor in
\* 0..L.
C5_CursorIsSumModL ==
    (PlayedCallback /\ is_looping /\ last.cursor \in 0..L) =>
        playhead_position = (last.cursor + last.frames) % L

\* C6: with looping and F <= L, the i-th frame a callback that starts at a
\* cursor in 0..L writes is the buffer frame at index (cursor before + i)
\* mod L, and the cursor it leaves
\* is congruent to cursor before + F, so the frames of successive callbacks
\* continue the same periodic sequence.
C6_PeriodicFrames ==
    (PlayedCallback /\ is_looping /\ last.frames <= L
                    /\ last.cursor \in 0..L) =>
        /\ Len(outdata) = last.frames
        /\ \A i \in 1..last.frames :
              outdata[i] = FrameAt((last.cursor + i - 1) % L)
        /\ playhead_position % L = (last.cursor + last.frames) % L

\* C6 witness: a wrapping callback wrote frames from both sides of the
\* seam.
C6_Witness ==
    /\ PlayedCallback
    /\ is_looping
    /\ last.frames <= L
    /\ last.cursor > 0
    /\ last.cursor < L
    /\ last.cursor + last.frames > L
    /\ outdata[1] = FrameAt(last.cursor)
    /\ outdata[last.frames] = FrameAt(last.cursor + last.frames - L - 1)

\* C7: a chunk that starts at cursor 0 is emitted multiplied by the rising
\* ramp, and a chunk that ends at the end of the buffer multiplied by the
\* falling ramp (its last sample by 0), the wrapped portion of a looping
\* callback included.  Products are compared over the ramp's denominator.
C7_ChunksAreFaded ==
    PlayedCallback =>
        LET c == last.cursor
            got == Max(0, Min(c + last.frames, L) - c)
        IN /\ (c = 0 /\ last.frames < L) =>
                \A i \in 1..got : \A ch \in 1..2 :
                    outdata[i][ch] * (fade_samples - 1) =
                        audio_data[ch][i] * RampIn(i - 1)
           /\ (c > 0 /\ c < L /\ c + last.frames >= L /\ ~last.raised) =>
                \A i \in 1..got : \A ch \in 1..2 :
                    outdata[i][ch] * (fade_samples - 1) =
                        audio_data[ch][c + i]
                            * RampOut(fade_samples - 1 - (got - i))
           /\ (is_looping /\ c < L /\ c + last.frames > L
                          /\ c + last.frames < L + L) =>
                \A i \in (got + 1)..last.frames : \A ch \in 1..2 :
                    outdata[i][ch] * (fade_samples - 1) =
                        audio_data[ch][i - got] * RampIn(i - got - 1)

\* C8: play_audio with no buffer loaded, or while Playing, changes no field,
\* opens no stream and emits no signal.
C8_PlayIsNoOp ==
    (RanAlone("play_audio") /\ (~last.loaded \/ last.playing)) =>
        /\ Found = last.found
        /\ last.opened = 0
        /\ last.signals = <<>>

\* C8 witness: play_audio was called while Playing.
C8_Witness ==
    /\ RanAlone("play_audio")
    /\ last.playing
    /\ is_playing
    /\ stream # None
    /\ open_streams = {stream}

\* C9: stop_playback changes neither cursor, buffer nor looping flag; a
\* callback that finds the session Idle does not move the cursor; play_audio
\* does not move it either, and a callback that finds the session Playing
\* writes first the buffer frames that start at the cursor it finds.
C9_StopKeepsCursor ==
    /\ (last.alone /\ last.op \in {"stop_playback", "play_audio"}) =>
          /\ playhead_position = last.found.playhead_position
          /\ audio_data = last.found.audio_data
          /\ is_looping = last.found.is_looping
    /\ (RanAlone("audio_callback") /\ ~last.playing) =>
          /\ playhead_position = last.found.playhead_position
          /\ audio_data = last.found.audio_data
          /\ is_looping = last.found.is_looping
    /\ PlayedCallback =>
          \A i \in 1..Min(last.frames, L - last.cursor) :
              outdata[i] = FrameAt(last.cursor + i - 1)

\* C9 witness: stop_playback ended a session in the middle of the buffer
\* and the cursor is where it was.
C9_Witness ==
    /\ RanAlone("stop_playback")
    /\ last.playing
    /\ ~is_playing
    /\ last.cursor > 0
    /\ last.cursor < L
    /\ playhead_position = last.cursor

\* C10: set_audio_data, called on a session that is Idle or Playing with
\* any cursor, ends with the session Idle, no stream held and the cursor
\* at 0.
C10_LoadResets ==
    (RanAlone("set_audio_data") /\ IdleOrPlaying(last.found)) =>
        /\ ~is_playing
        /\ stream = None
        /\ playhead_position = 0

\* C10 witness: a buffer was loaded over a session that was Playing with
\* the cursor away from 0.
C10_Witness ==
    /\ RanAlone("set_audio_data")
    /\ last.playing
    /\ last.held
    /\ last.cursor > 0
    /\ audio_data # NoData
    /\ playhead_position = 0

\* C11: every stream play_audio opened is closed by the time the session is
\* Idle, also when stopping it fails: once both threads have returned no
\* device stream is open while Idle, and never more than one.
C11_StreamsClosedWhenIdle ==
    Quiet =>
        /\ ~is_playing => open_streams = {}
        /\ Cardinality(open_streams) <= 1

\* C12: stop_playback while Idle changes no field and emits no signal;
\* while Playing it ends Idle (not playing, no stream held) with one
\* playbackStopped signal, and it never raises, whether stop() and close()
\* of the stream succeed or fail.
C12_StopIsSafe ==
    RanAlone("stop_playback") =>
        /\ ~last.raised
        /\ ~is_playing
        /\ ~last.playing =>
              /\ Found = last.found
              /\ last.signals = <<>>
        /\ last.playing =>
              /\ stream = None
              /\ last.signals = <<"playbackStopped">>

\* C12 witness: stop_playback ended a Playing session whose stream was
\* running although close() failed after stop() had succeeded: the stream
\* is stopped and still open.
C12_Witness ==
    /\ RanAlone("stop_playback")
    /\ last.playing
    /\ last.held
    /\ last.found.stream \in last.found.running
    /\ ~last.raised
    /\ ~is_playing
    /\ stream = None
    /\ last.found.stream \in open_streams
    /\ last.found.stream \notin running

\* The play_audio recorded in rec, run one at a time, passed its guard and
\* did not get the stream started.
PlayFailed(rec) ==
    /\ rec.op = "play_audio"
    /\ rec.alone
    /\ rec.loaded
    /\ ~rec.playing
    /\ ~Emitted(rec, "playbackStarted")

\* C13: when opening or starting the stream fails, play_audio ends Idle
\* with no stream held, cursor and buffer unchanged, and at most one stream
\* was constructed (no retry).
C13_FailedPlayEndsIdle ==
    PlayFailed(last) =>
        /\ ~is_playing
        /\ stream = None
        /\ playhead_position = last.found.playhead_position
        /\ audio_data = last.found.audio_data
        /\ mono_data = last.found.mono_data
        /\ last.opened <= 1
        /\ Cardinality(open_streams) <=
              Cardinality(last.found.open_streams) + 1

\* C13 witness: sd.OutputStream raised and the session is Idle.
C13_Witness ==
    /\ PlayFailed(last)
    /\ last.opened = 0
    /\ ~is_playing
    /\ stream = None

\* C14 as stated: a failed play_audio raises to its caller.
C14_FailureReachesCaller == PlayFailed(last) => last.raised

\* C14 amended: a failed play_audio returns normally; the exception is
\* caught, the session is Idle, and the only notification is one
\* playbackStopped signal.
C14_FailureIsSwallowed ==
    PlayFailed(last) =>
        /\ ~last.raised
        /\ last.signals = <<"playbackStopped">>
        /\ ~is_playing

\* C14 witness: a failed play_audio that returned normally.
C14_Witness ==
    /\ PlayFailed(last)
    /\ ~last.raised
    /\ last.signals = <<"playbackStopped">>

\* C15: a seek or a pointer press with no buffer loaded changes no field,
\* emits no signal, starts no playback and raises nothing.
C15_SeekWithoutBuffer ==
    (last.alone /\ last.op \in {"seek_to_position", "mousePressEvent"}
                /\ ~last.loaded) =>
        /\ Found = last.found
        /\ last.signals = <<>>
        /\ last.opened = 0
        /\ ~last.raised

\* C15 witness: a pointer press arrived with no buffer loaded.
C15_Witness ==
    /\ RanAlone("mousePressEvent")
    /\ ~last.loaded
    /\ audio_data = NoData
    /\ ~is_playing

\* The clamped padding-relative x of the latest seek.
SeekX ==
    IF last.x - WAVEFORM_PADDING < 0 THEN 0
    ELSE IF last.x - WAVEFORM_PADDING > last.width THEN last.width
    ELSE last.x - WAVEFORM_PADDING

\* C16 as stated: the seek sets the cursor to x_clamped * L / w rounded to
\* the nearest integer (any rule for ties).
C16_SeekRounds ==
    Seeked =>
        2 * Abs(playhead_position * last.width - SeekX * L) <= last.width

\* C16 amended: the seek clamps x to [0, w] and sets the cursor to
\* x_clamped * L / w truncated toward zero.
C16_SeekTruncates ==
    Seeked =>
        /\ playhead_position * last.width <= SeekX * L
        /\ SeekX * L < (playhead_position + 1) * last.width

\* C16 witness: a seek whose exact position has a fraction above one half.
C16_Witness ==
    /\ Seeked
    /\ 2 * (SeekX * L - playhead_position * last.width) > last.width
    /\ last.x - WAVEFORM_PADDING \in 0..last.width

\* C17: while Idle, a seek that repeats the x and the width of the seek
\* before it leaves the cursor that seek left, whatever the cursor was
\* before.
C17_SeekIdempotent ==
    [][(/\ RanAlone("seek_to_position")
        /\ last'.op = "seek_to_position"
        /\ last'.alone
        /\ last'.x = last.x
        /\ last'.width = last.width
        /\ audio_data # NoData
        /\ ~is_playing) =>
          /\ playhead_position' = playhead_position
          /\ last'.raised = last.raised]_vars

\* C17 witness: an Idle seek found the cursor in the interior of the buffer
\* and left it there.
C17_Witness ==
    /\ Seeked
    /\ ~is_playing
    /\ last.cursor = playhead_position
    /\ playhead_position > 0
    /\ playhead_position < L

\* The latest handler was a paintEvent, run one at a time, that followed a
\* seek to a column inside the drawable width on a widget of the same
\* width.
PaintAfterSeek ==
    /\ RanAlone("paintEvent")
    /\ last.x # NoColumn
    /\ last.x - WAVEFORM_PADDING \in 0..last.width

\* C18 as stated: after a seek to column x the playhead is painted at
\* column x.
C18_PlayheadAtSeekColumn == PaintAfterSeek => last.column = last.x

\* C18 amended: after a seek to column x the playhead is painted at a
\* column p with p <= x and x - p < w / L + 1; no playhead is painted when
\* the seek left the cursor at 0 and the session is Idle.
C18_PlayheadNearSeekColumn ==
    PaintAfterSeek =>
        IF is_playing \/ playhead_position > 0
        THEN /\ last.column # NoColumn
             /\ last.column <= last.x
             /\ (last.x - last.column) * L < last.width + L
        ELSE last.column = NoColumn

\* C18 witness: the playhead was painted left of the column of the seek
\* before it (cursor 1 of 2 on 3 columns, after a seek to column 2).
C18_Witness ==
    /\ PaintAfterSeek
    /\ last.width = 3
    /\ L = 2
    /\ last.cursor = 1
    /\ last.x = WAVEFORM_PADDING + 2
    /\ last.column = WAVEFORM_PADDING + 1

\* The window of pixel p (from 1) of the latest paintEvent: sample indices
\* WinStart(p) .. WinEnd(p) - 1, counted from 0.
WinStart(p) == PixelIndex(p - 1, Len(mono_data), last.width)
WinEnd(p) == PixelIndex(p, Len(mono_data), last.width)
Painted == last.op = "paintEvent" /\ last.loaded /\ last.width >= 1

\* C19: the envelope has W values; the W windows are contiguous and
\* disjoint and cover every sample index exactly once; each value is the
\* largest magnitude in its window and 0 for an empty window, which occurs
\* only when W > len.
C19_EnvelopePartition ==
    Painted =>
        LET W == last.width
            n == Len(mono_data)
        IN /\ Len(last.envelope) = W
           /\ WinStart(1) = 0
           /\ WinEnd(W) = n
           /\ \A p \in 1..W : WinStart(p) <= WinEnd(p)
           /\ \A p \in 1..(W - 1) : WinEnd(p) = WinStart(p + 1)
           /\ \A k \in 0..(n - 1) :
                 Cardinality({p \in 1..W :
                                WinStart(p) <= k /\ k < WinEnd(p)}) = 1
           /\ \A p \in 1..W :
                 IF WinStart(p) = WinEnd(p)
                 THEN last.envelope[p] = 0 /\ W > n
                 ELSE /\ \E k \in WinStart(p)..(WinEnd(p) - 1) :
                            last.envelope[p] = Abs(mono_data[k + 1])
                      /\ \A k \in WinStart(p)..(WinEnd(p) - 1) :
                            last.envelope[p] >= Abs(mono_data[k + 1])

\* C20: for every rank-1, rank-2 and rank-3 output of the backend the
\* canonicalization raises nothing and yields exactly 2 channels of equal
\* length.
C20_CanonicalizeNeverRaises ==
    generated.done =>
        /\ generated.error = "none"
        /\ Rank(generated.canonical) = 2
        /\ generated.canonical.shape[1] = 2
        /\ Len(generated.canonical.data) = 2 * generated.canonical.shape[2]

\* C21: a rank-1 input of length n, and a rank-2 input of shape (1, n),
\* canonicalize to two channels of length n, each equal sample for sample
\* to the input channel.
C21_MonoIsDuplicated ==
    (/\ generated.done
     /\ \/ Rank(generated.raw) = 1
        \/ Rank(generated.raw) = 2 /\ generated.raw.shape[1] = 1) =>
        /\ generated.error = "none"
        /\ generated.canonical.shape = <<2, Len(generated.raw.data)>>
        /\ Row(generated.canonical, 0) = generated.raw.data
        /\ Row(generated.canonical, 1) = generated.raw.data

\* C21 witness: a single channel row of two or more samples was
\* canonicalized.
C21_Witness ==
    /\ generated.done
    /\ Rank(generated.raw) = 2
    /\ generated.raw.shape[1] = 1
    /\ generated.raw.shape[2] >= 2
    /\ generated.canonical.shape[1] = 2

\* C22: the duration fitting returns exactly target_samples samples per
\* channel: the first min(c, t) are those of its input, the rest are zero,
\* and with c = t the buffer is returned as it was.
C22_FitsDuration ==
    (generated.done /\ generated.error = "none") =>
        LET c == generated.canonical.shape[2]
            t == generated.target_samples
        IN /\ generated.audio.shape = <<2, t>>
           /\ \A ch \in 0..1 :
                 /\ \A k \in 1..Min(c, t) :
                       Row(generated.audio, ch)[k] =
                          Row(generated.canonical, ch)[k]
                 /\ \A k \in (Min(c, t) + 1)..t :
                       Row(generated.audio, ch)[k] = 0
           /\ (c = t => generated.audio = generated.canonical)

\* C22 witness: a buffer longer than the target was trimmed to a target of
\* one sample or more.
C22_Witness ==
    /\ generated.done
    /\ generated.error = "none"
    /\ generated.target_samples >= 1
    /\ generated.canonical.shape[2] > generated.target_samples
    /\ generated.audio.shape[2] = generated.target_samples

\* The input of the latest normalize_audio call is all zero; its peak.
Silent(arr) == \A k \in 1..Len(arr.data) : arr.data[k] = QZero

\* C23: normalize_audio of an all-zero buffer returns a buffer equal to its
\* input and raises nothing.
C23_SilentIsUnchanged ==
    (normalized.done /\ Silent(normalized.input)) =>
        /\ normalized.error = "none"
        /\ normalized.output = normalized.input

\* C24: for a non-silent buffer every sample is scaled by 0.9 / peak, the
\* largest magnitude of the output is 0.9, and the second normalization, in
\* save_audio, returns the result of the first.
C24_PeakIsHeadroom ==
    (normalized.done /\ ~Silent(normalized.input)) =>
        /\ normalized.error = "none"
        /\ normalized.output.shape = normalized.input.shape
        /\ \A k \in 1..Len(normalized.input.data) :
              normalized.output.data[k] =
                 QMul(normalized.input.data[k],
                      QDiv(Headroom, Peak(normalized.input)))
        /\ Peak(normalized.output) = Headroom
        /\ (normalized.op = "save_audio" =>
               normalized.output = normalized.input)

\* C24 witness: save_audio normalized a second time a buffer holding a
\* sample below the peak.
C24_Witness ==
    /\ normalized.done
    /\ normalized.op = "save_audio"
    /\ ~Silent(normalized.input)
    /\ \E k \in 1..Len(normalized.input.data) :
          /\ normalized.input.data[k] # QZero
          /\ QLess(QAbs(normalized.input.data[k]), Headroom)
    /\ normalized.output = normalized.input

\* The latest call of the fader, on a 2 x FadedLen buffer.
FadedLen == shape1(faded.input)
FirstIsZero(a) == \A c \in 1..2 : a[c][1] = QZero
LastIsZero(a) == \A c \in 1..2 : a[c][shape1(a)] = QZero

\* C25: on a buffer of fade_samples samples or more (a ramp has two points
\* or more), apply_fade_in multiplies the first fade_samples samples of
\* every channel by a ramp rising from 0 to 1 and apply_fade_out the last
\* fade_samples samples by a ramp falling from 1 to 0: the first sample
\* after a fade-in and the last after a fade-out are 0.
C25_FadesRamp ==
    (faded.calls > 0 /\ faded.fade_samples >= 2
        /\ FadedLen >= faded.fade_samples) =>
        LET n == faded.fade_samples
            first == FadedLen - n
        IN /\ faded.error = "none"
           /\ faded.op = "apply_fade_in" =>
                 /\ \A c \in 1..2, i \in 1..FadedLen :
                       faded.output[c][i] =
                          IF i <= n
                          THEN QMul(faded.input[c][i], Q(i - 1, n - 1))
                          ELSE faded.input[c][i]
                 /\ FirstIsZero(faded.output)
           /\ faded.op = "apply_fade_out" =>
                 /\ \A c \in 1..2, i \in 1..FadedLen :
                       faded.output[c][i] =
                          IF i > first
                          THEN QMul(faded.input[c][i],
                                    Q(n - (i - first), n - 1))
                          ELSE faded.input[c][i]
                 /\ LastIsZero(faded.output)

\* C26: for every fade_samples, a buffer with fewer than fade_samples
\* samples per channel is returned by apply_fade_in and by apply_fade_out
\* as it was, and nothing is raised.
C26_ShortIsUnchanged ==
    (faded.calls > 0 /\ FadedLen < faded.fade_samples) =>
        /\ faded.error = "none"
        /\ faded.output = faded.input

\* C27: the loaded buffer holds the samples of the array as it was handed
\* to set_audio_data: no play_audio, stop_playback, seek_to_position,
\* audio_callback or paintEvent changes a sample of it, and neither does a
\* later write of the caller to its array.
C27_BufferIsImmutable == audio_data = caller_array.loaded

\* C27 witness: a callback played from the loaded buffer after the caller
\* had overwritten its array.
C27_Witness ==
    /\ PlayedCallback
    /\ audio_data # NoData
    /\ caller_array.data # caller_array.loaded
    /\ audio_data = caller_array.loaded
    /\ Len(outdata) > 0
    /\ last.cursor < L
    /\ outdata[1] = FrameAt(last.cursor)

\* The callback that returned latest, with the one seek that ran between
\* two of its lines.
Raced == last.race
RaceCompleted ==
    last.op = "audio_callback" /\ Raced.pc = "done" /\ Raced.seeks = 1

\* C28: once a seek to p and a callback of F frames have both completed,
\* in any interleaving, the cursor is p or what a callback starting at p
\* leaves: never the cursor from before the seek advanced by F, nor the
\* wrap remainder computed from it.
C28_NoSeekIsLost ==
    (RaceCompleted /\ ~Raced.raised) =>
        \/ playhead_position = Raced.seek_to
        \/ playhead_position =
              audio_callback(audio_data, Raced.seek_to, Raced.frames,
                             is_looping).cursor

\* C29: in every interleaving with a seek, the chunk of the callback has at
\* most F frames and the callback fills exactly F frames of the block.
C29_ChunkFitsBlock ==
    RaceCompleted =>
        /\ shape1(Raced.data) <= Raced.frames
        /\ ~Raced.raised
        /\ Len(outdata) = Raced.frames
        /\ \A i \in 1..Len(outdata) : outdata[i] # NoFrame

\* The values the cursor held while the callback in progress ran.
HeldDuring ==
    cb.held \cup (IF cb.alone THEN {cb.found.playhead_position} ELSE {})

\* C30: in every interleaving with seeks, the callback calls stop_playback
\* only if looping is off and fewer than F frames remained after some value
\* the cursor held during the callback.
C30_StopsOnlyAtEnd ==
    (cb.stops /\ cb.pc = "165") =>
        /\ ~is_looping
        /\ \E v \in HeldDuring : L - v < cb.frames

\* C35: canonicalization loses no samples: a rank-2 input of shape (a, b)
\* with a, b >= 1 yields two channels whose length is max(a, b), whichever
\* axis holds the channels and also with more than 2 channels.
C35_NoSampleIsLost ==
    (/\ generated.done
     /\ Rank(generated.raw) = 2
     /\ generated.raw.shape[1] >= 1
     /\ generated.raw.shape[2] >= 1) =>
        /\ generated.error = "none"
        /\ generated.canonical.shape[1] = 2
        /\ generated.canonical.shape[2] =
              Max(generated.raw.shape[1], generated.raw.shape[2])

\* C33: a non-looping callback that runs out of buffer leaves the cursor
\* where that callback began; a play_audio that follows with no seek and no
\* new buffer starts there, and its first callback of the same F frames
\* writes the same partial chunk (fewer than F buffer frames, then zeros)
\* and leaves the session Idle with the cursor still in that place.
C33_ReplayRepeatsTail ==
    /\ (PlayedCallback /\ ~is_looping /\ L - last.cursor < last.frames) =>
          /\ playhead_position = last.cursor
          /\ ~is_playing
    /\ (RanAlone("play_audio") /\ last.replay > 0
                               /\ Emitted(last, "playbackStarted")) =>
          /\ is_playing
          /\ ~is_looping
          /\ playhead_position = last.cursor
          /\ L - playhead_position < last.replay
    /\ (PlayedCallback /\ last.replay > 0) =>
          /\ ~is_looping
          /\ L - last.cursor < last.frames
          /\ outdata = [i \in 1..last.frames |->
                          IF i <= L - last.cursor
                          THEN FrameAt(last.cursor + i - 1)
                          ELSE ZeroFrame]
          /\ playhead_position = last.cursor
          /\ ~is_playing

\* C33 witness: the first callback of a replay found the cursor strictly
\* inside the buffer, wrote the tail and zeros, and left the session Idle.
C33_Witness ==
    /\ PlayedCallback
    /\ last.replay > 0
    /\ last.cursor > 0
    /\ last.cursor < L
    /\ outdata[1] = FrameAt(last.cursor)
    /\ outdata[last.frames] = ZeroFrame
    /\ playhead_position = last.cursor
    /\ ~is_playing

\* The step emits playbackStarted (line 157), playbackStopped (line 177).
EmitsStarted == gui.pc = "157" /\ gui'.pc # "157"
EmitsStopped ==
    \/ gui.pc = "177" /\ gui'.pc # "177"
    \/ cb.pc = "177" /\ cb'.pc # "177"

\* C34: over every sequence of play_audio, stop_playback, set_audio_data,
\* pointer presses and callbacks, failed play_audio attempts included, the
\* signals playbackStarted and playbackStopped alternate, beginning with
\* playbackStarted: each playbackStopped follows an unmatched playbackStarted.
C34_SignalsAlternate ==
    [][/\ EmitsStarted => ~started
       /\ EmitsStopped => started]_vars

\* C32: without looping, a Playing session whose device keeps calling back
\* becomes Idle when no seek and no set_audio_data follows; with looping no
\* line of the callback ends the session, so it stays Playing until
\* stop_playback or set_audio_data.
C32_ExhaustionEndsSession ==
    /\ (is_playing /\ ~is_looping) ~> (~is_playing \/ running = {})
    /\ [][(is_looping /\ cb'.pc # cb.pc) =>
             (is_playing' = is_playing /\ stream' = stream)]_vars

\* C32 witness: a non-looping session that was started from the beginning
\* of the buffer has been ended by a callback that found the cursor at L.
C32_Witness ==
    /\ Exhausted(last)
    /\ ~is_looping
    /\ last.playing
    /\ last.cursor = L
    /\ L >= 1
    /\ ~is_playing
    /\ stream = None

\* C31: under every interleaving of the stop_playback a callback calls at
\* the end of the buffer with play_audio or stop_playback on the GUI
\* thread, once both threads have returned is_playing implies that a stream
\* is held, and every stream open on the device is the one the session
\* holds.
C31_TeardownIsSafe ==
    Quiet =>
        /\ is_playing => stream # None
        /\ \A h \in open_streams : h = stream

====
